---------------------------- MODULE Spec2Model ----------------------------
(***************************************************************************)
(* Model of the blog server's multi-locale content model: the posts and    *)
(* comments tables (D1/SQLite), the repositories' statements, and the      *)
(* request handlers of PostService, CommentService and the admin translate *)
(* route.  Every handler is split at its awaits: one action per store      *)
(* statement, so concurrent requests interleave wherever the runtime lets  *)
(* them touch the store.                                                   *)
(*                                                                         *)
(* Columns that never decide control flow in the modelled handlers         *)
(* (content, summary, content and author_name of comments) are not part of *)
(* the rows.  The rows of the admin and comment specifications carry no    *)
(* title and no created_at/updated_at either: there a title exists only as *)
(* an input of createPost, where generateSlug reads it.  The rows of the   *)
(* listing specification carry all three, because the listing queries      *)
(* filter and order by them.                                               *)
(***************************************************************************)
EXTENDS Integers, Sequences, FiniteSets, TLC

(***************************************************************************)
(* Bounds of the model                                                     *)
(***************************************************************************)
\* ids the AUTOINCREMENT key of posts may hand out
MaxPosts == 3
\* request slots of the admin specification
NumReq == 2
\* concurrent incrementPostViews requests (specification SpecViews)
NumViewReq == 2
\* comment rows ever created, and the largest clock value (SpecComments)
MaxComments == 2
MaxClock == 1
\* embedding calls started in the background (specification SpecEmbed)
MaxTasks == 2

\* SQL NULL / JS null / undefined for numeric columns and arguments.  Row ids
\* start at 1, so 0 is falsy exactly like null in `post.original_post_id || id`.
NULL == 0
\* parseInt(...) of a non-numeric parameter: a value no numeric parameter
\* of a request takes
NaN == -2

VARIABLES
    posts,      \* posts table: id -> row
    nextId,     \* next AUTOINCREMENT id of posts
    comments,   \* comments table in rowid (insertion) order
    nextCid,    \* stands for crypto.randomUUID(): next unused comment id
    now,        \* the wall clock read by new Date()
    req,        \* request slot -> the handler's position and locals
    embeddingService,   \* whether PostService was given the Vectorize and AI bindings
    tasks,      \* the calls of the embedding service under way, and the
                \* settled ones nobody awaited
    vectors,    \* the Vectorize index: a set of [id, metadata], one per id
    tags,       \* tags table in id order: tags[i] is the row of tag id i
    post_tags   \* post_tags table: a set of <<post_id, tag_id>>

vars == <<posts, nextId, comments, nextCid, now, req, embeddingService, tasks, vectors,
          tags, post_tags>>

\* the variables of the embedding side
embedVars == <<embeddingService, tasks, vectors>>

\* the tag tables
tagVars == <<tags, post_tags>>

(***************************************************************************)
(* Text: strings are sequences of one-character strings                    *)
(***************************************************************************)
LowerAlnum == {"a", "b", "0"}

\* String.prototype.toLowerCase on one character
toLowerCase(c) == IF c = "A" THEN "a" ELSE IF c = "B" THEN "b" ELSE c

RECURSIVE collapse(_, _)
\* .replace(/[^a-z0-9]+/g, "-"): every maximal run of other characters
\* becomes one hyphen.  inRun: the previous character was replaced.
collapse(s, inRun) ==
    IF s = <<>> THEN <<>>
    ELSE IF Head(s) \in LowerAlnum
         THEN <<Head(s)>> \o collapse(Tail(s), FALSE)
         ELSE IF inRun THEN collapse(Tail(s), TRUE)
                       ELSE <<"-">> \o collapse(Tail(s), TRUE)

RECURSIVE trimLeft(_)
trimLeft(s) == IF s # <<>> /\ Head(s) = "-" THEN trimLeft(Tail(s)) ELSE s

RECURSIVE trimRight(_)
trimRight(s) ==
    IF s # <<>> /\ s[Len(s)] = "-" THEN trimRight(SubSeq(s, 1, Len(s) - 1)) ELSE s

\* PostService.generateSlug
generateSlug(title) ==
    trimRight(trimLeft(collapse([i \in 1..Len(title) |-> toLowerCase(title[i])], FALSE)))

\* validateSlug's pattern /^[a-z0-9]+(?:-[a-z0-9]+)*$/
validSlug(s) ==
    /\ s # <<>>
    /\ \A i \in 1..Len(s) : s[i] \in LowerAlnum \cup {"-"}
    /\ s[1] # "-"
    /\ s[Len(s)] # "-"
    /\ \A i \in 1..(Len(s) - 1) : ~(s[i] = "-" /\ s[i + 1] = "-")

(***************************************************************************)
(* The store                                                               *)
(***************************************************************************)
Locales == {"ko", "en"}
States == {"draft", "published"}

\* a row of posts as INSERT writes it: views start at 0
NewPost(id, slug, state, locale, orig) ==
    [id |-> id, slug |-> slug, state |-> state, locale |-> locale,
     original_post_id |-> orig, views |-> 0]

Ids == DOMAIN posts

\* postQueries.selectById finds a row
Exists(id) == id \in Ids

\* an identity post: original_post_id IS NULL
IsIdentity(id) == id \in Ids /\ posts[id].original_post_id = NULL

\* the translations of post id
TranslationsOf(id) == {t \in Ids : posts[t].original_post_id = id}

(***************************************************************************)
(* Request slots                                                           *)
(***************************************************************************)
Slots == 1..NumReq
ViewSlots == 1..NumViewReq

Idle ==
    [op |-> "none", pc |-> "idle", id |-> NULL, target |-> NULL, slug |-> <<>>,
     locale |-> "ko", state |-> "draft", orig |-> NULL, ai |-> 0, at |-> 0,
     seen |-> 0, valid |-> TRUE, result |-> "none", msg |-> "", ret |-> NULL,
     list |-> <<>>, page |-> 0, size |-> 0, sort |-> <<>>, order |-> <<>>,
     total |-> 0, topK |-> 0, values |-> NULL, relatedPosts |-> <<>>,
     follows |-> FALSE, tags |-> <<>>, tagId |-> NULL]

Free(r) == req[r].pc \in {"idle", "done"}

\* the handler returns or throws: the slot keeps the outcome
Finish(r, result, ret) ==
    req' = [req EXCEPT ![r] = [Idle EXCEPT !.op = req[r].op, !.id = req[r].id,
                !.pc = "done", !.result = result, !.ret = ret]]

Goto(r, pc) == req' = [req EXCEPT ![r].pc = pc]

\* the handler throws: the error class and its message
Throw(r, class, msg) ==
    req' = [req EXCEPT ![r] = [Idle EXCEPT !.pc = "done", !.result = class, !.msg = msg]]

\* the handler returns the post with id ret
Return(r, ret) ==
    req' = [req EXCEPT ![r] = [Idle EXCEPT !.pc = "done", !.result = "ok", !.ret = ret]]

(***************************************************************************)
(* View counts: PostService.incrementPostViews                             *)
(***************************************************************************)
\* `post.original_post_id || id` of incrementViews and getViews
targetIdOwn(post, id) == id

targetId(post, id) ==
    IF post.original_post_id # NULL THEN post.original_post_id ELSE id

\* postQueries.incrementViews: one UPDATE statement.  seen is the views value
\* of the row findById read before; the statement does not use it.
incrementViewsReadModifyWrite(P, id, seen) ==
    IF id \in DOMAIN P /\ P[id].state = "published"
    THEN [P EXCEPT ![id].views = seen + 1]
    ELSE P

incrementViewsStmt(P, id, seen) ==
    IF id \in DOMAIN P /\ P[id].state = "published"
    THEN [P EXCEPT ![id].views = P[id].views + 1]
    ELSE P

\* postQueries.selectViews; NULL when no row matches
selectViews(id) == IF Exists(id) THEN posts[id].views ELSE NULL

\* PostRepository.getViews, both statements against one store state
getViews(id) ==
    IF Exists(id) THEN selectViews(targetId(posts[id], id)) ELSE NULL

\* incrementPostViews up to the first statement of repository.incrementViews
ViewsStart(r, postId) ==
    /\ req[r].pc = "idle"
    /\ IF postId = NULL \/ postId = NaN
       THEN req' = [req EXCEPT ![r] = [Idle EXCEPT !.op = "views", !.id = postId,
                        !.pc = "done", !.result = "ValidationError"]]
       ELSE IF ~Exists(postId)
       THEN req' = [req EXCEPT ![r] = [Idle EXCEPT !.op = "views", !.id = postId,
                        !.pc = "getViews"]]
       ELSE req' = [req EXCEPT ![r] = [Idle EXCEPT !.op = "views", !.id = postId,
                        !.pc = "increment",
                        !.target = targetId(posts[postId], postId),
                        !.seen = posts[postId].views]]
    /\ UNCHANGED <<posts, nextId, comments, nextCid, now>>
    /\ UNCHANGED embedVars
    /\ UNCHANGED tagVars

\* the UPDATE of repository.incrementViews
ViewsIncrement(r) ==
    /\ req[r].op = "views" /\ req[r].pc = "increment"
    /\ posts' = incrementViewsStmt(posts, req[r].target, req[r].seen)
    /\ Goto(r, "getViews")
    /\ UNCHANGED <<nextId, comments, nextCid, now>>
    /\ UNCHANGED embedVars
    /\ UNCHANGED tagVars

\* repository.getViews: findById
ViewsFind(r) ==
    /\ req[r].op = "views" /\ req[r].pc = "getViews"
    /\ IF Exists(req[r].id)
       THEN req' = [req EXCEPT ![r].pc = "select",
                        ![r].target = targetId(posts[req[r].id], req[r].id)]
       ELSE Finish(r, "NotFoundError", NULL)
    /\ UNCHANGED <<posts, nextId, comments, nextCid, now>>
    /\ UNCHANGED embedVars
    /\ UNCHANGED tagVars

\* repository.getViews: selectViews, then the handler returns {views}
ViewsSelect(r) ==
    /\ req[r].op = "views" /\ req[r].pc = "select"
    /\ IF Exists(req[r].target)
       THEN Finish(r, "ok", selectViews(req[r].target))
       ELSE Finish(r, "NotFoundError", NULL)
    /\ UNCHANGED <<posts, nextId, comments, nextCid, now>>
    /\ UNCHANGED embedVars
    /\ UNCHANGED tagVars

\* path parameters of PATCH /posts/:postId/views
ViewIds == {NULL, NaN} \cup (1..(MaxPosts + 1))

\* a store the admin API can build: identity post 1 (published) with its
\* translation 2, and an unrelated identity post 3
ViewsStores ==
    { (1 :> NewPost(1, <<"a">>, "published", "ko", NULL)) @@
      (2 :> NewPost(2, <<"a">>, s2, "en", 1)) @@
      (3 :> NewPost(3, <<"b">>, s3, "en", NULL)) : s2 \in States, s3 \in States }

InitViews ==
    /\ posts \in ViewsStores
    /\ nextId = 4
    /\ comments = <<>>
    /\ nextCid = 1
    /\ now = 0
    /\ req = [r \in ViewSlots |-> Idle]
    /\ embeddingService = FALSE
    /\ tasks = <<>>
    /\ vectors = {}
    /\ tags = <<>>
    /\ post_tags = {}

NextViews ==
    \E r \in ViewSlots :
        \/ \E postId \in ViewIds : ViewsStart(r, postId)
        \/ ViewsIncrement(r)
        \/ ViewsFind(r)
        \/ ViewsSelect(r)

SpecViews == InitViews /\ [][NextViews]_vars

\* requests addressed to post p or one of its translations whose UPDATE ran
Incremented(p) ==
    {r \in DOMAIN req : /\ req[r].op = "views"
                        /\ req[r].pc \in {"getViews", "select", "done"}
                        /\ req[r].id \in ({p} \cup TranslationsOf(p))}

\* C1: an identity post and each of its translations read the same view
\* count, and an increment addressed to a translation changes the views
\* column of the identity row and nothing else.
C1_UnifiedViews ==
    [][ /\ \A p \in Ids : IsIdentity(p) =>
            \A t \in TranslationsOf(p) : getViews(t)' = getViews(p)'
        /\ \A r \in DOMAIN req :
            (ViewsIncrement(r) /\ Exists(req[r].id)
                /\ posts[req[r].id].original_post_id # NULL
                /\ IsIdentity(posts[req[r].id].original_post_id))
            => LET p == posts[req[r].id].original_post_id IN
               /\ \A i \in Ids \ {p} : posts'[i] = posts[i]
               /\ posts'[p] = [posts[p] EXCEPT !.views = posts'[p].views]
               /\ posts'[p].views = posts[p].views
                      + (IF posts[p].state = "published" THEN 1 ELSE 0)
      ]_vars

C1_Witness ==
    \E r \in DOMAIN req :
        /\ req[r].op = "views" /\ req[r].pc = "done" /\ req[r].result = "ok"
        /\ req[r].id = 2 /\ posts[2].original_post_id = 1
        /\ posts[1].views = 2 /\ posts[2].views = 0
        /\ getViews(1) = 2 /\ getViews(2) = 2

\* C2: concurrent increments are never lost: a published identity post's
\* counter equals the number of increment statements addressed to its
\* variants, whatever the interleaving; each call returns the count of the
\* increments that ran before its read, so sequential calls on a fresh post
\* return 1, 2, ...
C2_NoLostUpdate ==
    [][ /\ \A p \in Ids : (IsIdentity(p) /\ posts[p].state = "published") =>
            posts'[p].views = Cardinality(Incremented(p))'
        /\ \A r \in DOMAIN req : \A t \in Ids :
            (ViewsSelect(r) /\ req'[r].result = "ok" /\ req[r].target = t
                /\ posts[t].state = "published")
            => req'[r].ret = Cardinality(Incremented(t))'
      ]_vars

C2_Witness ==
    /\ \A r \in DOMAIN req : req[r].pc = "done" /\ req[r].result = "ok"
                             /\ req[r].id \in {1, 2}
    /\ \E r \in DOMAIN req : req[r].id = 1
    /\ \E r \in DOMAIN req : req[r].id = 2
    /\ posts[1].views = NumViewReq
    /\ \A r \in DOMAIN req : req[r].ret = NumViewReq

(***************************************************************************)
(* Comments: CommentRepository and CommentService                          *)
(***************************************************************************)
\* commentQueries.checkPostExists: SELECT id FROM posts WHERE id = ? AND
\* state = 'published'
postExistsAnyState(postId) == Exists(postId)

postExists(postId) == Exists(postId) /\ posts[postId].state = "published"

\* CommentRepository.getOriginalPostId; NULL when the row is gone
getOriginalPostIdOwn(postId) == IF Exists(postId) THEN postId ELSE NULL

getOriginalPostId(postId) ==
    IF ~Exists(postId) THEN NULL
    ELSE IF posts[postId].original_post_id # NULL
         THEN posts[postId].original_post_id
         ELSE postId

\* the rows of comments with post_id = postId, in rowid order
CommentsOf(postId) == SelectSeq(comments, LAMBDA c : c.post_id = postId)

IsSortedByCreatedAt(rows) ==
    \A i \in 1..(Len(rows) - 1) : rows[i].created_at <= rows[i + 1].created_at

\* the orders SQLite may return n rows in: every permutation of the indexes
Perms(n) == {f \in [1..n -> 1..n] : \A i, j \in 1..n : i # j => f[i] # f[j]}

\* commentQueries.selectByPostId without its ORDER BY: rows in any order
selectByPostIdUnordered(postId) ==
    LET rows == CommentsOf(postId) IN
    {[i \in 1..Len(rows) |-> rows[f[i]]] : f \in Perms(Len(rows))}

\* commentQueries.selectByPostId: ORDER BY created_at ASC; SQL leaves the
\* order of rows with equal created_at open, so every sorted order is a
\* possible result
selectByPostId(postId) ==
    {rows \in selectByPostIdUnordered(postId) : IsSortedByCreatedAt(rows)}

\* path parameters of /comments/:postId
CommentPostIds == {NULL, NaN} \cup (1..(MaxPosts + 1))

\* getCommentsByPostId / createComment up to repository.postExists
CommentStart(r, op, postId, valid) ==
    /\ Free(r)
    /\ IF postId = NULL \/ postId = NaN
       THEN req' = [req EXCEPT ![r] = [Idle EXCEPT !.op = op, !.id = postId,
                        !.pc = "done", !.result = "ValidationError"]]
       ELSE IF ~postExists(postId)
       THEN req' = [req EXCEPT ![r] = [Idle EXCEPT !.op = op, !.id = postId,
                        !.pc = "done", !.result = "NotFoundError"]]
       ELSE req' = [req EXCEPT ![r] = [Idle EXCEPT !.op = op, !.id = postId,
                        !.valid = valid, !.pc = "getOriginalPostId"]]
    /\ UNCHANGED <<posts, nextId, comments, nextCid, now>>
    /\ UNCHANGED embedVars
    /\ UNCHANGED tagVars

\* repository.getOriginalPostId; createComment then validates the body and
\* reads the clock before it awaits the INSERT
CommentResolve(r) ==
    /\ req[r].op \in {"getComments", "createComment"}
    /\ req[r].pc = "getOriginalPostId"
    /\ IF getOriginalPostId(req[r].id) = NULL
       THEN Finish(r, "NotFoundError", NULL)
       ELSE IF req[r].op = "getComments"
       THEN req' = [req EXCEPT ![r].pc = "findByPostId",
                        ![r].target = getOriginalPostId(req[r].id)]
       ELSE IF ~req[r].valid
       THEN Finish(r, "ValidationError", NULL)
       ELSE req' = [req EXCEPT ![r].pc = "create",
                        ![r].target = getOriginalPostId(req[r].id),
                        ![r].at = now]
    /\ UNCHANGED <<posts, nextId, comments, nextCid, now>>
    /\ UNCHANGED embedVars
    /\ UNCHANGED tagVars

\* repository.findByPostId(originalId), then the handler returns the list
CommentList(r) ==
    /\ req[r].op = "getComments" /\ req[r].pc = "findByPostId"
    /\ \E rows \in selectByPostId(req[r].target) :
        req' = [req EXCEPT ![r] = [Idle EXCEPT !.op = req[r].op, !.id = req[r].id,
                    !.pc = "done", !.result = "ok", !.list = rows]]
    /\ UNCHANGED <<posts, nextId, comments, nextCid, now>>
    /\ UNCHANGED embedVars
    /\ UNCHANGED tagVars

\* repository.create: the INSERT; comments.post_id REFERENCES posts(id), and
\* a failed statement surfaces as an unclassified (internal) error
CommentInsert(r) ==
    /\ req[r].op = "createComment" /\ req[r].pc = "create"
    /\ nextCid <= MaxComments
    /\ IF Exists(req[r].target)
       THEN /\ comments' = Append(comments,
                   [id |-> nextCid, post_id |-> req[r].target, created_at |-> req[r].at])
            /\ nextCid' = nextCid + 1
            /\ Finish(r, "ok", req[r].target)
       ELSE /\ Finish(r, "InternalServerError", NULL)
            /\ UNCHANGED <<comments, nextCid>>
    /\ UNCHANGED <<posts, nextId, now>>
    /\ UNCHANGED embedVars
    /\ UNCHANGED tagVars

\* time passes
Tick ==
    /\ now < MaxClock
    /\ now' = now + 1
    /\ UNCHANGED <<posts, nextId, comments, nextCid, req>>
    /\ UNCHANGED embedVars
    /\ UNCHANGED tagVars

\* identity post 1 with its translation 2 (draft or published), and the
\* unrelated identity post 3
CommentStores ==
    { (1 :> NewPost(1, <<"a">>, "published", "ko", NULL)) @@
      (2 :> NewPost(2, <<"a">>, s2, "en", 1)) @@
      (3 :> NewPost(3, <<"b">>, "published", "en", NULL)) : s2 \in States }

InitComments ==
    /\ posts \in CommentStores
    /\ nextId = 4
    /\ comments = <<>>
    /\ nextCid = 1
    /\ now = 0
    /\ req = [r \in Slots |-> Idle]
    /\ embeddingService = FALSE
    /\ tasks = <<>>
    /\ vectors = {}
    /\ tags = <<>>
    /\ post_tags = {}

NextComments ==
    \/ Tick
    \/ \E r \in Slots :
        \/ \E op \in {"getComments", "createComment"}, postId \in CommentPostIds,
              valid \in BOOLEAN : CommentStart(r, op, postId, valid)
        \/ CommentResolve(r)
        \/ CommentList(r)
        \/ CommentInsert(r)

SpecComments == InitComments /\ [][NextComments]_vars

\* the locale variants of identity post p
Variants(p) == {p} \cup TranslationsOf(p)

\* C3: a comment created through any locale variant of an identity post is
\* stored on the identity post, and every listing that a variant of the
\* identity post returns holds every comment of the identity post, ordered by
\* created_at ascending.
C3_SharedCommentThread ==
    [][ \A r \in DOMAIN req : \A p \in Ids :
          (IsIdentity(p) /\ req[r].id \in Variants(p)) =>
            /\ (req[r].op = "createComment" /\ req[r].pc = "create"
                    /\ req'[r].pc = "done" /\ req'[r].result = "ok") =>
                 /\ Len(comments') = Len(comments) + 1
                 /\ SubSeq(comments', 1, Len(comments)) = comments
                 /\ comments'[Len(comments')].post_id = p
            /\ (req[r].op = "getComments" /\ req[r].pc = "findByPostId"
                    /\ req'[r].pc = "done") =>
                 /\ req'[r].result = "ok"
                 /\ \A i \in 1..Len(comments) : comments[i].post_id = p =>
                        \E j \in 1..Len(req'[r].list) : req'[r].list[j] = comments[i]
                 /\ \A j \in 1..Len(req'[r].list) : req'[r].list[j].post_id = p
                 /\ IsSortedByCreatedAt(req'[r].list)
      ]_vars

\* a comment written through the translation (post 2) and a later one written
\* through the identity post (1) but inserted first are listed through the
\* translation in creation order
C3_Witness ==
    /\ Len(comments) = 2
    /\ comments[1].post_id = 1 /\ comments[2].post_id = 1
    /\ comments[1].created_at > comments[2].created_at
    /\ \E r \in DOMAIN req :
        /\ req[r].op = "getComments" /\ req[r].pc = "done" /\ req[r].id = 2
        /\ req[r].list = <<comments[2], comments[1]>>
    /\ \E r \in DOMAIN req :
        /\ req[r].op = "createComment" /\ req[r].pc = "done" /\ req[r].id = 2
        /\ req[r].result = "ok"

\* C4: a comment listing or creation addressed to a post row that is missing
\* or not published fails with NotFoundError and writes no comment.
C4_NotFoundUnlessPublished ==
    [][ \A r \in DOMAIN req :
          (/\ Free(r) /\ req'[r] # req[r]
           /\ req'[r].op \in {"getComments", "createComment"}
           /\ req'[r].id \in 1..(MaxPosts + 1)
           /\ (~Exists(req'[r].id) \/ posts[req'[r].id].state # "published"))
          => /\ req'[r].pc = "done"
             /\ req'[r].result = "NotFoundError"
             /\ comments' = comments
      ]_vars

C4_Witness ==
    /\ \E r \in DOMAIN req :
        /\ req[r].op = "createComment" /\ req[r].pc = "done"
        /\ req[r].id = 2 /\ posts[2].state = "draft"
        /\ req[r].result = "NotFoundError"
    /\ \E r \in DOMAIN req :
        /\ req[r].op = "getComments" /\ req[r].pc = "done"
        /\ req[r].id = MaxPosts + 1 /\ ~Exists(MaxPosts + 1)
        /\ req[r].result = "NotFoundError"
    /\ comments = <<>>


(***************************************************************************)
(* Posts: PostRepository statements                                        *)
(***************************************************************************)
\* postQueries.selectBySlugAndLocale: a row with this slug in this locale
findBySlugAndLocale(slug, locale) ==
    \E i \in Ids : posts[i].slug = slug /\ posts[i].locale = locale

\* postQueries.selectBySlugAndLocaleExcludingId
findBySlugAndLocaleExcludingId(slug, locale, id) ==
    \E i \in Ids \ {id} : posts[i].slug = slug /\ posts[i].locale = locale

\* postQueries.selectTranslation: a row with original_post_id = ? in locale ?
findTranslation(originalPostId, locale) ==
    \E i \in Ids : posts[i].original_post_id = originalPostId /\ posts[i].locale = locale

\* posts: UNIQUE(slug, locale), checked for the row id is given
UniqueOk(P, id, slug, locale) ==
    \A i \in DOMAIN P \ {id} : ~(P[i].slug = slug /\ P[i].locale = locale)

\* posts: original_post_id REFERENCES posts(id)
ForeignKeyOk(P, orig) == orig = NULL \/ orig \in DOMAIN P

\* the table without UNIQUE(slug, locale)
insertAcceptedNoUnique(P, slug, locale, orig) == ForeignKeyOk(P, orig)

\* PostRepository.create: whether the INSERT is accepted by the table's
\* constraints
insertAccepted(P, slug, locale, orig) ==
    UniqueOk(P, NULL, slug, locale) /\ ForeignKeyOk(P, orig)

\* PostRepository.update: slug = COALESCE(?, slug); whether the UPDATE of row
\* id is accepted (it matches no row when id is gone)
updateAccepted(P, id, slug) ==
    id \in DOMAIN P /\ slug # <<>> => UniqueOk(P, id, slug, P[id].locale)

\* PostRepository.delete: DELETE FROM posts WHERE id = ?; original_post_id
\* is declared ON DELETE SET NULL
deleteRow(P, id) ==
    [i \in DOMAIN P \ {id} |->
        IF P[i].original_post_id = id THEN [P[i] EXCEPT !.original_post_id = NULL]
        ELSE P[i]]

\* comments.post_id is declared ON DELETE CASCADE
deleteCommentsOf(C, id) == SelectSeq(C, LAMBDA c : c.post_id # id)

\* postTagQueries.deleteByPostId: DELETE FROM post_tags WHERE post_id = ?;
\* post_tags.post_id is declared ON DELETE CASCADE as well
deletePostTags(PT, postId) == {pt \in PT : pt[1] # postId}

(***************************************************************************)
(* Embedding calls started by the write handlers                           *)
(***************************************************************************)
\* const vectorId = `post-${postId}`
vectorId(postId) == <<"post", postId>>

\* post.state === "published" ? post.createdAt : null; the rows of the
\* admin specifications carry no created_at column
publishedAtOf(post) ==
    IF post.state = "published" /\ "created_at" \in DOMAIN post
    THEN post.created_at ELSE NULL

\* PostVectorMetadata as indexPost builds it from the post it is given
metadataOf(post) ==
    [postId |-> post.id, slug |-> post.slug, state |-> post.state,
     publishedAt |-> publishedAtOf(post)]

\* a call of embeddingService.indexPost under way: by names the caller and
\* waiter the request that awaits the returned promise (NULL: nobody does);
\* attempt is the loop variable of generateEmbedding and delays the waits
\* (in ms) it has made
indexPost(post, by, waiter) ==
    [kind |-> "indexPost", by |-> by, post |-> post.id, meta |-> metadataOf(post),
     pc |-> "generateEmbedding", result |-> "none", waiter |-> waiter,
     attempt |-> 0, delays |-> <<>>]

triggerEmbeddingAwaited(r, post) == indexPost(post, "triggerEmbedding", r)

\* triggerEmbedding(post): indexPost(...) is called, a catch handler is
\* attached to its promise and nothing awaits it
triggerEmbedding(r, post) == indexPost(post, "triggerEmbedding", NULL)

\* deletePost: embeddingService.deletePostEmbedding(postId) is called with
\* a catch handler attached and nothing awaits it
deletePostEmbedding(postId) ==
    [kind |-> "deletePostEmbedding", by |-> "deletePost", post |-> postId,
     meta |-> <<>>, pc |-> "deleteByIds", result |-> "none", waiter |-> NULL,
     attempt |-> 0, delays |-> <<>>]

\* if (this.embeddingService ...) the call is started
dispatch(T, enabled, task) == IF enabled THEN Append(T, task) ELSE T

\* the write requests under way: each may still start an embedding call
Writing ==
    {q \in Slots : /\ req[q].op \in {"createPost", "updatePost", "deletePost", "translate"}
                   /\ req[q].pc # "done"}

\* at most MaxTasks embedding calls are started: a write request is
\* admitted only while one is left for it
TaskLeft == ~embeddingService \/ Len(tasks) + Cardinality(Writing) < MaxTasks

(***************************************************************************)
(* PostService.createPost                                                  *)
(***************************************************************************)
\* the requests that may still insert a row
Creating == {q \in Slots : req[q].pc \in {"findTranslation", "ai", "check", "insert"}}

\* AUTOINCREMENT hands out ids up to MaxPosts: a request that goes on to
\* insert is admitted only while an id is left for it
IdLeft == nextId + Cardinality(Creating) <= MaxPosts

\* let slug = postData.slug; if (!slug) slug = this.generateSlug(title)
slugOf(title, slugIn) == IF slugIn = <<>> THEN generateSlug(title) ELSE slugIn

\* validatePostRequest, the slug default and
\* repository.findBySlugAndLocale(slug, locale)
CreatePost(r, title, slugIn, locale, state, orig, tagNames) ==
    /\ Free(r)
    /\ IF slugIn # <<>> /\ ~validSlug(slugIn)
       THEN Throw(r, "ValidationError", "Slug must contain only")
       ELSE IF findBySlugAndLocale(slugOf(title, slugIn), locale)
       THEN Throw(r, "ValidationError", "Slug already exists")
       ELSE /\ IdLeft
            /\ TaskLeft
            /\ req' = [req EXCEPT ![r] = [Idle EXCEPT !.op = "createPost", !.pc = "insert",
                             !.slug = slugOf(title, slugIn),
                             !.locale = locale, !.state = state, !.orig = orig,
                             !.tags = tagNames]]
    /\ UNCHANGED <<posts, nextId, comments, nextCid, now>>
    /\ UNCHANGED embedVars
    /\ UNCHANGED tagVars

\* a request body without tags: tags = []
CreateStart(r, title, slugIn, locale, state, orig) ==
    CreatePost(r, title, slugIn, locale, state, orig, <<>>)

\* repository.create; with tags in the request associateTags follows.
\* Otherwise the created post is read back, its embedding call is started
\* (triggerEmbedding) and the post is returned.  The error of a statement
\* the table rejects is no APIError and matches none of toAPIError's
\* patterns: it surfaces as InternalServerError.
CreateInsert(r) ==
    /\ req[r].op \in {"createPost", "translate"} /\ req[r].pc = "insert"
    /\ IF insertAccepted(posts, req[r].slug, req[r].locale, req[r].orig)
       THEN /\ posts' = posts @@ (nextId :> NewPost(nextId, req[r].slug, req[r].state,
                                                    req[r].locale, req[r].orig))
            /\ nextId' = nextId + 1
            /\ IF req[r].tags # <<>>
               THEN /\ req' = [req EXCEPT ![r].pc = "findTagByName", ![r].id = nextId,
                                          ![r].list = req[r].tags]
                    /\ UNCHANGED tasks
               ELSE /\ tasks' = dispatch(tasks, embeddingService,
                                         triggerEmbedding(r, NewPost(nextId, req[r].slug,
                                              req[r].state, req[r].locale, req[r].orig)))
                    /\ Return(r, nextId)
       ELSE /\ Throw(r, "InternalServerError",
                     IF UniqueOk(posts, NULL, req[r].slug, req[r].locale)
                     THEN "FOREIGN KEY constraint failed"
                     ELSE "UNIQUE constraint failed")
            /\ UNCHANGED <<posts, nextId, tasks>>
    /\ UNCHANGED <<comments, nextCid, now>>
    /\ UNCHANGED <<embeddingService, vectors>>
    /\ UNCHANGED tagVars

(***************************************************************************)
(* PostService.updatePost                                                  *)
(***************************************************************************)
\* validatePostRequest, then repository.findById(postId)
UpdatePost(r, postId, slugIn, state, tagNames) ==
    /\ Free(r)
    /\ IF slugIn # <<>> /\ ~validSlug(slugIn)
       THEN Throw(r, "ValidationError", "Slug must contain only")
       ELSE IF ~Exists(postId)
       THEN Throw(r, "NotFoundError", "Post not found")
       ELSE /\ TaskLeft
            /\ req' = [req EXCEPT ![r] = [Idle EXCEPT !.op = "updatePost", !.id = postId,
                        !.pc = IF slugIn # <<>> THEN "slugCheck" ELSE "update",
                        !.slug = slugIn, !.locale = posts[postId].locale,
                        !.state = state, !.tags = tagNames]]
    /\ UNCHANGED <<posts, nextId, comments, nextCid, now>>
    /\ UNCHANGED embedVars
    /\ UNCHANGED tagVars

\* a request body without tags: tags = []
UpdateStart(r, postId, slugIn, state) == UpdatePost(r, postId, slugIn, state, <<>>)

\* repository.findBySlugAndLocaleExcludingId(slug, existingPost.locale, postId)
UpdateSlugCheck(r) ==
    /\ req[r].op = "updatePost" /\ req[r].pc = "slugCheck"
    /\ IF findBySlugAndLocaleExcludingId(req[r].slug, req[r].locale, req[r].id)
       THEN Throw(r, "ValidationError", "Slug already exists")
       ELSE Goto(r, "update")
    /\ UNCHANGED <<posts, nextId, comments, nextCid, now>>
    /\ UNCHANGED embedVars
    /\ UNCHANGED tagVars

\* repository.update; deletePostTags and, with tags in the request,
\* associateTags follow.  While no tag exists and the request has no tags
\* these delete and insert nothing: the update is then taken together with
\* what follows it, the post is read back, its embedding call is started
\* when the row was found, and the post is returned (null when the row is
\* gone).
UpdateWrite(r) ==
    /\ req[r].op = "updatePost" /\ req[r].pc = "update"
    /\ IF updateAccepted(posts, req[r].id, req[r].slug)
       THEN /\ posts' = IF Exists(req[r].id)
                        THEN [posts EXCEPT ![req[r].id].state = req[r].state,
                                           ![req[r].id].slug =
                                               IF req[r].slug # <<>> THEN req[r].slug ELSE @]
                        ELSE posts
            /\ IF tags # <<>> \/ req[r].tags # <<>>
               THEN /\ Goto(r, "deletePostTags")
                    /\ UNCHANGED tasks
               ELSE /\ tasks' = IF Exists(req[r].id)
                                THEN dispatch(tasks, embeddingService,
                                              triggerEmbedding(r, posts'[req[r].id]))
                                ELSE tasks
                    /\ Return(r, IF Exists(req[r].id) THEN req[r].id ELSE NULL)
       ELSE /\ Throw(r, "InternalServerError", "UNIQUE constraint failed")
            /\ UNCHANGED <<posts, tasks>>
    /\ UNCHANGED <<nextId, comments, nextCid, now>>
    /\ UNCHANGED <<embeddingService, vectors>>
    /\ UNCHANGED tagVars

(***************************************************************************)
(* PostService.deletePost                                                  *)
(***************************************************************************)
\* repository.findById(postId)
DeleteStart(r, postId) ==
    /\ Free(r)
    /\ IF Exists(postId)
       THEN /\ TaskLeft
            /\ req' = [req EXCEPT ![r] = [Idle EXCEPT !.op = "deletePost", !.id = postId,
                        !.pc = "delete"]]
       ELSE Throw(r, "NotFoundError", "Post not found")
    /\ UNCHANGED <<posts, nextId, comments, nextCid, now>>
    /\ UNCHANGED embedVars
    /\ UNCHANGED tagVars

\* repository.delete(postId) with the schema's ON DELETE actions; then the
\* deletion of the embedding is started and {deleted, id} is returned
DeleteWrite(r) ==
    /\ req[r].op = "deletePost" /\ req[r].pc = "delete"
    /\ posts' = deleteRow(posts, req[r].id)
    /\ comments' = deleteCommentsOf(comments, req[r].id)
    /\ post_tags' = deletePostTags(post_tags, req[r].id)
    /\ tasks' = dispatch(tasks, embeddingService, deletePostEmbedding(req[r].id))
    /\ Return(r, req[r].id)
    /\ UNCHANGED <<nextId, nextCid, now>>
    /\ UNCHANGED <<embeddingService, vectors, tags>>

(***************************************************************************)
(* POST /admin/posts/:postId/translate                                     *)
(***************************************************************************)
\* body.targetLocale || "en"
effectiveTarget(targetLocale) == IF targetLocale = "" THEN "en" ELSE targetLocale

\* whether the route accepts the source post: originalPost.locale !== "ko"
\* is rejected
sourceAccepted(post) == post.locale = "ko"

\* the target-locale check, postRepository.findById(postId) and the locale
\* check on the source post
TranslateStart(r, postId, targetLocale) ==
    /\ Free(r)
    /\ IF effectiveTarget(targetLocale) # "en"
       THEN Throw(r, "ValidationError", "Only English translation is supported")
       ELSE IF ~Exists(postId)
       THEN Throw(r, "ValidationError", "Post not found")
       ELSE IF ~sourceAccepted(posts[postId])
       THEN Throw(r, "ValidationError", "Only Korean posts can be translated")
       ELSE /\ IdLeft
            /\ TaskLeft
            /\ req' = [req EXCEPT ![r] = [Idle EXCEPT !.op = "translate", !.id = postId,
                             !.pc = "findTranslation",
                             !.locale = effectiveTarget(targetLocale),
                             !.slug = posts[postId].slug, !.state = "draft",
                             !.orig = postId]]
    /\ UNCHANGED <<posts, nextId, comments, nextCid, now>>
    /\ UNCHANGED embedVars
    /\ UNCHANGED tagVars

\* postRepository.findTranslation(postId, targetLocale)
TranslateFind(r) ==
    /\ req[r].op = "translate" /\ req[r].pc = "findTranslation"
    /\ IF findTranslation(req[r].id, req[r].locale)
       THEN Throw(r, "ValidationError", "Translation already exists")
       ELSE Goto(r, "ai")
    /\ UNCHANGED <<posts, nextId, comments, nextCid, now>>
    /\ UNCHANGED embedVars
    /\ UNCHANGED tagVars

\* the three c.env.AI.run calls (title, content, summary).  They touch no
\* store, so the calls of one request are taken in one step; ai counts
\* them.  An empty title or content response is rejected; an empty summary
\* response falls back to the original summary.  createPost derives the
\* slug from the translated title when the source post has none.
TranslateAI(r, title, contentOk) ==
    /\ req[r].op = "translate" /\ req[r].pc = "ai"
    /\ IF title = <<>>
       THEN req' = [req EXCEPT ![r] = [Idle EXCEPT !.pc = "done", !.ai = 1,
                        !.result = "ValidationError",
                        !.msg = "AI failed to translate title"]]
       ELSE IF ~contentOk
       THEN req' = [req EXCEPT ![r] = [Idle EXCEPT !.pc = "done", !.ai = 2,
                        !.result = "ValidationError",
                        !.msg = "AI failed to translate content"]]
       ELSE req' = [req EXCEPT ![r].pc = "check", ![r].ai = 3,
                        ![r].slug = slugOf(title, req[r].slug)]
    /\ UNCHANGED <<posts, nextId, comments, nextCid, now>>
    /\ UNCHANGED embedVars
    /\ UNCHANGED tagVars

\* postService.createPost({slug: originalPost.slug, state: "draft",
\* locale: targetLocale, originalPostId: postId}): its slug check
TranslateCreate(r) ==
    /\ req[r].op = "translate" /\ req[r].pc = "check"
    /\ IF findBySlugAndLocale(req[r].slug, req[r].locale)
       THEN Throw(r, "ValidationError", "Slug already exists")
       ELSE Goto(r, "insert")
    /\ UNCHANGED <<posts, nextId, comments, nextCid, now>>
    /\ UNCHANGED embedVars
    /\ UNCHANGED tagVars

(***************************************************************************)
(* Specification Spec: the admin API on an initially empty store           *)
(***************************************************************************)
\* title of the request body: generateSlug derives the slug "a" from it
Titles == {<<"A">>}
\* slug of the request body: absent, valid, or rejected by validateSlug
SlugInputs == {<<>>, <<"b">>, <<"B">>}
\* state of the request body
StateInputs == {"published"}
\* originalPostId of the request body: none, or an id the store has handed
\* out or will hand out
OrigInputs == 0..(MaxPosts - 1)
\* body.targetLocale of the translate route; "" is an absent field
TargetInputs == {"", "en", "ja"}
\* the AI's trimmed title response
TitleResponses == {<<>>, <<"A">>}

Init ==
    /\ posts = <<>>
    /\ nextId = 1
    /\ comments = <<>>
    /\ nextCid = 1
    /\ now = 0
    /\ req = [r \in Slots |-> Idle]
    /\ embeddingService = FALSE
    /\ tasks = <<>>
    /\ vectors = {}
    /\ tags = <<>>
    /\ post_tags = {}

Next ==
    \E r \in Slots :
        \/ \E title \in Titles, slugIn \in SlugInputs, locale \in Locales,
              state \in StateInputs, orig \in OrigInputs :
                CreateStart(r, title, slugIn, locale, state, orig)
        \/ CreateInsert(r)
        \/ \E postId \in 1..MaxPosts, slugIn \in SlugInputs, state \in StateInputs :
                UpdateStart(r, postId, slugIn, state)
        \/ UpdateSlugCheck(r)
        \/ UpdateWrite(r)
        \/ \E postId \in 1..MaxPosts : DeleteStart(r, postId)
        \/ DeleteWrite(r)
        \/ \E postId \in 1..MaxPosts, targetLocale \in TargetInputs :
                TranslateStart(r, postId, targetLocale)
        \/ TranslateFind(r)
        \/ \E title \in TitleResponses, contentOk \in BOOLEAN :
                TranslateAI(r, title, contentOk)
        \/ TranslateCreate(r)

Spec == Init /\ [][Next]_vars


(***************************************************************************)
(* Translation linking                                                     *)
(***************************************************************************)
\* C5: in every reachable state there is at most one post row for each
\* (original_post_id, locale) pair with non-null original_post_id.
C5_OneTranslationPerLocale ==
    \A i, j \in Ids :
        (/\ i # j
         /\ posts[i].original_post_id # NULL
         /\ posts[i].original_post_id = posts[j].original_post_id)
        => posts[i].locale # posts[j].locale

\* C6: in every reachable state every row with a non-null original_post_id
\* references an existing row whose own original_post_id is null.
C6_TranslationsReferenceIdentity ==
    \A i \in Ids :
        posts[i].original_post_id # NULL =>
            /\ posts[i].original_post_id \in Ids
            /\ posts[posts[i].original_post_id].original_post_id = NULL

\* C7: the translate operation's existing-translation check, run for an
\* identity post that has a translation in the target locale, fails with
\* ConflictError, creates no row and leaves the rows unchanged.
C7_DuplicateTranslationConflict ==
    [][ \A r \in Slots :
          (/\ req[r].op = "translate" /\ req[r].pc = "findTranslation"
           /\ req'[r] # req[r]
           /\ IsIdentity(req[r].id)
           /\ findTranslation(req[r].id, req[r].locale))
          => /\ req'[r].pc = "done"
             /\ req'[r].result = "ConflictError"
             /\ posts' = posts
             /\ nextId' = nextId
      ]_vars

\* C8: a translate request whose target locale is not "en", or whose source
\* post is a translation (non-null original_post_id), ends at its first
\* step with ValidationError, no AI call made and no row written.
C8_TranslateRejectsBeforeAI ==
    [][ \A r \in Slots, postId \in 1..MaxPosts, targetLocale \in TargetInputs :
          (/\ TranslateStart(r, postId, targetLocale)
           /\ \/ effectiveTarget(targetLocale) # "en"
              \/ (Exists(postId) /\ posts[postId].original_post_id # NULL))
          => /\ req'[r].pc = "done"
             /\ req'[r].result = "ValidationError"
             /\ req'[r].ai = 0
             /\ posts' = posts
      ]_vars

C10_SlugCollisionConflict ==
    [][ \A r \in Slots :
          /\ \A title \in Titles, slugIn \in SlugInputs, locale \in Locales,
                state \in StateInputs, orig \in OrigInputs :
                (/\ CreateStart(r, title, slugIn, locale, state, orig)
                 /\ (slugIn = <<>> \/ validSlug(slugIn)))
                => IF findBySlugAndLocale(slugOf(title, slugIn), locale)
                   THEN /\ req'[r].pc = "done"
                        /\ req'[r].result = "ConflictError"
                        /\ posts' = posts
                   ELSE req'[r].pc = "insert"
          /\ (/\ req[r].op = "createPost" /\ req[r].pc = "insert"
              /\ req'[r] # req[r]
              /\ insertAccepted(posts, req[r].slug, req[r].locale, req[r].orig))
             => /\ req'[r].result = "ok"
                /\ req'[r].ret \in DOMAIN posts' \ DOMAIN posts
                /\ posts'[req'[r].ret].slug = req[r].slug
                /\ posts'[req'[r].ret].locale = req[r].locale
          /\ (/\ req[r].op = "updatePost" /\ req[r].pc = "slugCheck"
              /\ req'[r] # req[r]
              /\ findBySlugAndLocaleExcludingId(req[r].slug, req[r].locale, req[r].id))
             => /\ req'[r].pc = "done"
                /\ req'[r].result = "ConflictError"
                /\ posts' = posts
      ]_vars


(***************************************************************************)
(* Deleting                                                                *)
(***************************************************************************)
\* C11: after deletePost succeeds on an identity post P the store holds no
\* row that was a translation of P and no comment with post_id = P, and P
\* itself is gone.
C11_DeleteCascades ==
    [][ \A r \in Slots : \A p \in Ids :
          (/\ req[r].op = "deletePost" /\ req[r].pc = "delete" /\ req[r].id = p
           /\ req'[r] # req[r] /\ req'[r].result = "ok"
           /\ IsIdentity(p))
          => /\ p \notin DOMAIN posts'
             /\ \A t \in TranslationsOf(p) : t \notin DOMAIN posts'
             /\ \A i \in 1..Len(comments') : comments'[i].post_id # p
      ]_vars


(***************************************************************************)
(* Timestamps                                                              *)
(***************************************************************************)
\* The clock now counts ticks; a second has TicksPerSecond of them.  A
\* timestamp string "YYYY-MM-DDTHH:MM:SS[.fff]Z" is the pair of its whole
\* seconds and its fraction part; NoFraction stands for a string whose
\* seconds are followed by "Z" directly.
TicksPerSecond == 2
\* the largest clock value of the listing specification
MaxListClock == 2

NoFraction == TicksPerSecond

\* new Date().toISOString(): always with a fraction part
toISOString(t) == [sec |-> t \div TicksPerSecond, frac |-> t % TicksPerSecond]

\* strftime('%Y-%m-%dT%H:%M:%SZ', 'now'): whole seconds, no fraction part
strftimeNow(t) == [sec |-> t \div TicksPerSecond, frac |-> NoFraction]

\* the collation rank of a timestamp string: strings are compared character
\* by character, and after equal seconds "." sorts before "Z"
stringRank(ts) == ts.sec * (TicksPerSecond + 1) + ts.frac

\* a <= b on TEXT values (SQLite) and on strings (JS)
strLE(a, b) == stringRank(a) <= stringRank(b)

\* the instant a timestamp string denotes, in ticks
instant(ts) ==
    ts.sec * TicksPerSecond + (IF ts.frac = NoFraction THEN 0 ELSE ts.frac)

(***************************************************************************)
(* Listing: validation of page, size and sort                              *)
(***************************************************************************)
\* the bounds of size in validatePagination
MinPageSize == 1
MaxPageSize == 100

\* a < b on JS numbers: false when either side is NaN
jsLess(a, b) == a # NaN /\ b # NaN /\ a < b

\* validatePagination without the upper bound of size
validatePaginationNoMax(page, size) ==
    (IF page = NaN \/ jsLess(page, 0)
     THEN {"Page must be a non-negative integer"} ELSE {})
    \cup
    (IF size = NaN \/ jsLess(size, MinPageSize)
     THEN {"Size must be between 1 and 100"} ELSE {})

\* validatePagination: the errors it returns
validatePagination(page, size) ==
    (IF page = NaN \/ jsLess(page, 0)
     THEN {"Page must be a non-negative integer"} ELSE {})
    \cup
    (IF size = NaN \/ jsLess(size, MinPageSize) \/ jsLess(MaxPageSize, size)
     THEN {"Size must be between 1 and 100"} ELSE {})

\* A sort string is the sequence of its parts, sort.split(","); <<>> is the
\* empty string.  String.prototype.toLowerCase / toUpperCase on a part:
toLowerCaseWord(w) ==
    IF w \in {"ASC", "asc"} THEN "asc"
    ELSE IF w \in {"DESC", "desc"} THEN "desc" ELSE w

toUpperCaseWord(w) ==
    IF w \in {"ASC", "asc"} THEN "ASC"
    ELSE IF w \in {"DESC", "desc"} THEN "DESC" ELSE w

\* allowedSortFields
allowedSortFields == {"createdAt", "updatedAt", "views", "title"}

\* const [field, direction = "desc"] = sort.split(",")
directionOrDefault(sort) == IF Len(sort) >= 2 THEN sort[2] ELSE "desc"

\* validateSorting without the allow-list of fields
validateSortingAnyField(sort, allowedFields) ==
    IF sort = <<>> THEN {"Sort parameter must be a string"}
    ELSE IF toLowerCaseWord(directionOrDefault(sort)) \notin {"asc", "desc"}
         THEN {"Sort direction must be asc or desc"} ELSE {}

\* validateSorting: the errors it returns
validateSorting(sort, allowedFields) ==
    IF sort = <<>> THEN {"Sort parameter must be a string"}
    ELSE (IF sort[1] \notin allowedFields
          THEN {"Sort field must be one of"} ELSE {})
         \cup
         (IF toLowerCaseWord(directionOrDefault(sort)) \notin {"asc", "desc"}
          THEN {"Sort direction must be asc or desc"} ELSE {})

\* fieldMapping[sortField] || sortField
fieldMapping(sortField) ==
    IF sortField = "createdAt" THEN "created_at"
    ELSE IF sortField = "updatedAt" THEN "updated_at"
    ELSE sortField

\* `${dbSortField} ${sortDirection.toUpperCase()}` with
\* [sortField, sortDirection] = sort.split(","); sortDirection is undefined
\* for a sort of one part, and the call on it throws a TypeError
orderClauseThrows(sort) == Len(sort) < 2

orderClause(sort) ==
    [column |-> fieldMapping(sort[1]), direction |-> toUpperCaseWord(sort[2])]

(***************************************************************************)
(* Listing: PostRepository.findAll / count / findAllAdmin / countAdmin     *)
(***************************************************************************)
\* a row of posts with the columns the listing queries read
ListPost(id, slug, title, state, locale, orig, createdAt, updatedAt) ==
    [id |-> id, slug |-> slug, state |-> state, locale |-> locale,
     original_post_id |-> orig, views |-> 0, title |-> title,
     created_at |-> createdAt, updated_at |-> updatedAt]

\* WHERE p.state = 'published' AND p.locale = ? AND
\* p.created_at <= strftime('%Y-%m-%dT%H:%M:%SZ', 'now')
publicFilter(locale) ==
    {i \in Ids : /\ posts[i].state = "published"
                 /\ posts[i].locale = locale
                 /\ strLE(posts[i].created_at, strftimeNow(now))}

\* WHERE p.locale = ? when a locale is given, no WHERE otherwise
adminFilter(locale) == {i \in Ids : locale = "" \/ posts[i].locale = locale}

\* COALESCE((SELECT op.views FROM posts op WHERE op.id = p.original_post_id),
\* p.views)
unifiedViews(i) ==
    IF posts[i].original_post_id \in Ids THEN posts[posts[i].original_post_id].views
    ELSE posts[i].views

\* the collation rank of the titles the stores hold
titleRank(title) == IF title = <<"A">> THEN 1 ELSE 2

\* the value ORDER BY <column> compares
sortKey(i, column) ==
    CASE column = "created_at" -> stringRank(posts[i].created_at)
      [] column = "updated_at" -> stringRank(posts[i].updated_at)
      [] column = "views" -> unifiedViews(i)
      [] column = "title" -> titleRank(posts[i].title)
      [] column = "id" -> i

\* ORDER BY ${orderClause}: every order of the rows S that respects the
\* clause (SQL leaves the order of rows with equal keys open)
orderBy(S, order) ==
    {s \in [1..Cardinality(S) -> S] :
        /\ \A i, j \in 1..Cardinality(S) : i # j => s[i] # s[j]
        /\ \A i, j \in 1..Cardinality(S) : i < j =>
              IF order.direction = "ASC"
              THEN sortKey(s[i], order.column) <= sortKey(s[j], order.column)
              ELSE sortKey(s[i], order.column) >= sortKey(s[j], order.column)}

\* LIMIT ? OFFSET ?
limitOffset(s, limit, offset) ==
    SubSeq(s, offset + 1, IF offset + limit < Len(s) THEN offset + limit ELSE Len(s))

\* the columns of a result row the handlers read; findAll selects no state
\* column, so post.state is undefined in getPosts
publicRow(i) == [id |-> i, state |-> "undefined", created_at |-> posts[i].created_at]
adminRow(i) == [id |-> i, state |-> posts[i].state, created_at |-> posts[i].created_at]

\* PostRepository.findAll: the possible results
findAll(locale, offset, limit, order) ==
    {[k \in DOMAIN limitOffset(s, limit, offset) |->
            publicRow(limitOffset(s, limit, offset)[k])] :
        s \in orderBy(publicFilter(locale), order)}

\* PostRepository.count
count(locale) == Cardinality(publicFilter(locale))

\* PostRepository.findAllAdmin: the possible results
findAllAdmin(locale, offset, limit, order) ==
    {[k \in DOMAIN limitOffset(s, limit, offset) |->
            adminRow(limitOffset(s, limit, offset)[k])] :
        s \in orderBy(adminFilter(locale), order)}

\* PostRepository.countAdmin
countAdmin(locale) == Cardinality(adminFilter(locale))

\* getAdminPosts: displayState of a result row, jsNow = new Date().toISOString()
displayState(row, jsNow) ==
    IF row.state = "published" /\ ~strLE(row.created_at, jsNow)
    THEN "scheduled" ELSE row.state

(***************************************************************************)
(* PostService.getPosts / getAdminPosts                                    *)
(***************************************************************************)
ListOps == {"getPosts", "getAdminPosts"}

\* getPosts: locale = "ko" when absent; getAdminPosts passes it on
localeOrDefault(op, locale) ==
    IF op = "getPosts" /\ locale = "" THEN "ko" ELSE locale

\* the public and admin read operations
ReadOps == ListOps \cup {"getPostBySlug", "generateSitemap"}

\* Read requests do not affect each other: one slot at a time holds a read
\* request or its outcome, next to the requests that write.
OneListing(r) == \A q \in Slots \ {r} : req[q].op \notin ReadOps

\* the message of the ValidationError: the errors joined; the first one
\* identifies it here
firstError(page, size, sort) ==
    IF "Page must be a non-negative integer" \in validatePagination(page, size)
    THEN "Page must be a non-negative integer"
    ELSE IF validatePagination(page, size) # {}
    THEN "Size must be between 1 and 100"
    ELSE IF sort = <<>> THEN "Sort parameter must be a string"
    ELSE IF "Sort field must be one of" \in validateSorting(sort, allowedSortFields)
    THEN "Sort field must be one of"
    ELSE "Sort direction must be asc or desc"

\* a read handler throws
ListThrow(r, op, class, msg) ==
    req' = [req EXCEPT ![r] = [Idle EXCEPT !.op = op, !.pc = "done",
                !.result = class, !.msg = msg]]

\* a listing handler throws; the slot keeps the parameters of the request
ListReject(r, op, page, size, sort, class, msg) ==
    req' = [req EXCEPT ![r] = [Idle EXCEPT !.op = op, !.pc = "done",
                !.page = page, !.size = size, !.sort = sort,
                !.result = class, !.msg = msg]]

\* validatePagination, validateSorting and the construction of orderClause.
\* The TypeError of orderClause is no APIError and matches none of
\* toAPIError's patterns: it surfaces as InternalServerError.
ListStart(r, op, locale, page, size, sort) ==
    /\ Free(r)
    /\ OneListing(r)
    /\ IF validatePagination(page, size) # {}
       THEN ListReject(r, op, page, size, sort, "ValidationError",
                       firstError(page, size, sort))
       ELSE IF validateSorting(sort, allowedSortFields) # {}
       THEN ListReject(r, op, page, size, sort, "ValidationError",
                       firstError(page, size, sort))
       ELSE IF orderClauseThrows(sort)
       THEN ListReject(r, op, page, size, sort, "InternalServerError",
                       "Cannot read properties of undefined")
       ELSE req' = [req EXCEPT ![r] = [Idle EXCEPT !.op = op, !.pc = "all",
                        !.locale = localeOrDefault(op, locale),
                        !.page = page, !.size = size, !.sort = sort,
                        !.order = orderClause(sort)]]
    /\ UNCHANGED <<posts, nextId, comments, nextCid, now>>
    /\ UNCHANGED embedVars
    /\ UNCHANGED tagVars

\* Promise.all([repository.findAll(...), repository.count(...)]): two
\* statements in flight together, executed by the store in either order.
\* This is the page statement, with offset = page * size and limit = size.
ListPage(r) ==
    /\ req[r].op \in ListOps /\ req[r].pc \in {"all", "page"}
    /\ \E rows \in (IF req[r].op = "getPosts"
                    THEN findAll(req[r].locale, req[r].page * req[r].size,
                                 req[r].size, req[r].order)
                    ELSE findAllAdmin(req[r].locale, req[r].page * req[r].size,
                                      req[r].size, req[r].order)) :
        req' = [req EXCEPT ![r].list = rows,
                           ![r].pc = IF req[r].pc = "all" THEN "count" ELSE "tags"]
    /\ UNCHANGED <<posts, nextId, comments, nextCid, now>>
    /\ UNCHANGED embedVars
    /\ UNCHANGED tagVars

\* the count statement of the Promise.all
ListCount(r) ==
    /\ req[r].op \in ListOps /\ req[r].pc \in {"all", "count"}
    /\ req' = [req EXCEPT ![r].total = IF req[r].op = "getPosts"
                                       THEN count(req[r].locale)
                                       ELSE countAdmin(req[r].locale),
                          ![r].pc = IF req[r].pc = "all" THEN "page" ELSE "tags"]
    /\ UNCHANGED <<posts, nextId, comments, nextCid, now>>
    /\ UNCHANGED embedVars
    /\ UNCHANGED tagVars

\* the items of the response: getAdminPosts reads the clock and replaces the
\* state of a row by its display state
listItems(op, rows, t) ==
    [k \in DOMAIN rows |->
        IF op = "getAdminPosts"
        THEN [rows[k] EXCEPT !.state = displayState(rows[k], toISOString(t))]
        ELSE rows[k]]

\* repository.getTagsForPosts, then the response {content, totalElements,
\* pageNumber, pageSize} is built and returned
ListFinish(r) ==
    /\ req[r].op \in ListOps /\ req[r].pc = "tags"
    /\ req' = [req EXCEPT ![r] = [Idle EXCEPT !.op = req[r].op, !.pc = "done",
                    !.result = "ok",
                    !.list = listItems(req[r].op, req[r].list, now),
                    !.total = req[r].total, !.page = req[r].page,
                    !.size = req[r].size, !.sort = req[r].sort,
                    !.order = req[r].order]]
    /\ UNCHANGED <<posts, nextId, comments, nextCid, now>>
    /\ UNCHANGED embedVars
    /\ UNCHANGED tagVars

\* time passes
ListTick ==
    /\ now < MaxListClock
    /\ now' = now + 1
    /\ UNCHANGED <<posts, nextId, comments, nextCid, req>>
    /\ UNCHANGED embedVars
    /\ UNCHANGED tagVars

(***************************************************************************)
(* PostService.getPostBySlug and SitemapService.generateSitemap            *)
(***************************************************************************)
\* postQueries.selectPublishedBySlug: WHERE slug = ? AND state = 'published'
findPublishedBySlug(slug) ==
    {i \in Ids : posts[i].slug = slug /\ posts[i].state = "published"}

\* postQueries.selectPublishedById: WHERE id = ? AND state = 'published'
findPublishedById(id) ==
    {i \in Ids : i = id /\ posts[i].state = "published"}

\* The two statements select id, slug, title, content, summary, state,
\* created_at, updated_at and views: post.locale and post.original_post_id
\* of their result row are undefined.
selectedLocale(i) == "undefined"
selectedOriginalPostId(i) == NULL

\* post.original_post_id || post.id
originalIdOf(i) ==
    IF selectedOriginalPostId(i) # NULL THEN selectedOriginalPostId(i) ELSE i

\* postQueries.selectTranslation: the rows with original_post_id = ? in
\* locale ?
selectTranslation(originalPostId, locale) ==
    {i \in Ids : posts[i].original_post_id = originalPostId /\ posts[i].locale = locale}

\* postQueries.selectOriginalAndTranslations, bound to (postId, postId): the
\* post and the rows that reference it
findAllLanguageVersions(postId) ==
    {i \in Ids : i = postId \/ posts[i].original_post_id = postId}

\* tagQueries.selectAllPublishedSlugs: WHERE state = 'published' ORDER BY
\* created_at DESC; the possible results
findAllPublishedSlugs ==
    {[k \in DOMAIN s |-> posts[s[k]].slug] :
        s \in orderBy({i \in Ids : posts[i].state = "published"},
                      [column |-> "created_at", direction |-> "DESC"])}

\* getPostBySlug with a numeric slug: repository.findPublishedById, then
\* not-found or the redirect to the post's slug
GetPostById(r, id) ==
    /\ Free(r)
    /\ OneListing(r)
    /\ IF findPublishedById(id) = {}
       THEN ListThrow(r, "getPostBySlug", "NotFoundError", "Post not found")
       ELSE req' = [req EXCEPT ![r] = [Idle EXCEPT !.op = "getPostBySlug", !.pc = "done",
                        !.result = "redirect", !.ret = id, !.slug = posts[id].slug,
                        !.locale = selectedLocale(id)]]
    /\ UNCHANGED <<posts, nextId, comments, nextCid, now>>
    /\ UNCHANGED embedVars
    /\ UNCHANGED tagVars

\* getPostBySlug with any other slug, up to repository.findPublishedBySlug;
\* first() returns one of the rows the statement matches.  follows: the
\* client makes the call to follow the redirect it was answered with.
GetPostCall(r, slug, locale, follows) ==
    /\ Free(r)
    /\ OneListing(r)
    /\ IF slug = <<>>
       THEN ListThrow(r, "getPostBySlug", "ValidationError", "Slug parameter is required")
       ELSE IF findPublishedBySlug(slug) = {}
       THEN req' = [req EXCEPT ![r] = [Idle EXCEPT !.op = "getPostBySlug", !.pc = "done",
                        !.result = "NotFoundError", !.msg = "Post not found",
                        !.follows = follows]]
       ELSE \E i \in findPublishedBySlug(slug) :
              req' = [req EXCEPT ![r] = [Idle EXCEPT !.op = "getPostBySlug",
                        !.pc = IF locale # "" /\ selectedLocale(i) # locale
                               THEN "findTranslation" ELSE "versions",
                        !.target = i, !.slug = slug, !.locale = locale,
                        !.seen = posts[i].views, !.follows = follows]]
    /\ UNCHANGED <<posts, nextId, comments, nextCid, now>>
    /\ UNCHANGED embedVars
    /\ UNCHANGED tagVars

\* GET /posts/:slug with the slug and locale of a request
GetPostStart(r, slug, locale) == GetPostCall(r, slug, locale, FALSE)

\* repository.findTranslation(originalId, locale): a redirect to the row
\* found, or the handler goes on with the post
GetPostTranslation(r) ==
    /\ req[r].op = "getPostBySlug" /\ req[r].pc = "findTranslation"
    /\ IF selectTranslation(originalIdOf(req[r].target), req[r].locale) = {}
       THEN Goto(r, "versions")
       ELSE \E t \in selectTranslation(originalIdOf(req[r].target), req[r].locale) :
              req' = [req EXCEPT ![r] = [Idle EXCEPT !.op = "getPostBySlug", !.pc = "done",
                        !.result = "redirect", !.ret = t, !.slug = posts[t].slug,
                        !.locale = posts[t].locale, !.follows = req[r].follows]]
    /\ UNCHANGED <<posts, nextId, comments, nextCid, now>>
    /\ UNCHANGED embedVars
    /\ UNCHANGED tagVars

\* repository.getTagsForPost and repository.findAllLanguageVersions
GetPostVersions(r) ==
    /\ req[r].op = "getPostBySlug" /\ req[r].pc = "versions"
    /\ \E s \in orderBy(findAllLanguageVersions(originalIdOf(req[r].target)),
                        [column |-> "id", direction |-> "ASC"]) :
        req' = [req EXCEPT ![r].pc = "views",
                           ![r].list = [k \in DOMAIN s |->
                                [locale |-> posts[s[k]].locale, slug |-> posts[s[k]].slug]]]
    /\ UNCHANGED <<posts, nextId, comments, nextCid, now>>
    /\ UNCHANGED embedVars
    /\ UNCHANGED tagVars

\* repository.getViews(post.id) ?? post.views, then the post is returned
GetPostViews(r) ==
    /\ req[r].op = "getPostBySlug" /\ req[r].pc = "views"
    /\ req' = [req EXCEPT ![r] = [Idle EXCEPT !.op = "getPostBySlug", !.pc = "done",
                    !.result = "ok", !.ret = req[r].target, !.slug = req[r].slug,
                    !.locale = selectedLocale(req[r].target), !.list = req[r].list,
                    !.seen = IF getViews(req[r].target) # NULL
                             THEN getViews(req[r].target) ELSE req[r].seen,
                    !.follows = req[r].follows]]
    /\ UNCHANGED <<posts, nextId, comments, nextCid, now>>
    /\ UNCHANGED embedVars
    /\ UNCHANGED tagVars

\* generateSitemap: repository.findAllPublishedSlugs
GenerateSitemap(r) ==
    /\ Free(r)
    /\ OneListing(r)
    /\ \E slugs \in findAllPublishedSlugs :
        req' = [req EXCEPT ![r] = [Idle EXCEPT !.op = "generateSitemap", !.pc = "done",
                    !.result = "ok", !.list = slugs]]
    /\ UNCHANGED <<posts, nextId, comments, nextCid, now>>
    /\ UNCHANGED embedVars
    /\ UNCHANGED tagVars

(***************************************************************************)
(* Specification SpecList: the listings next to deletePost                 *)
(***************************************************************************)
\* created_at of post 1: half a second and a second after the start, both
\* as toISOString writes them, and the start itself as a createdAt of the
\* request body without fraction part
CreatedAtInputs == {toISOString(1), toISOString(TicksPerSecond), strftimeNow(0)}

\* post 1 (ko, published, created_at chosen), post 2 (ko, draft or
\* published) and post 3, the en translation of post 1
ListStores ==
    { (1 :> ListPost(1, <<"a">>, <<"B">>, "published", "ko", NULL, c, toISOString(0))) @@
      (2 :> ListPost(2, <<"b">>, <<"A">>, s, "ko", NULL, toISOString(0), toISOString(0))) @@
      (3 :> ListPost(3, <<"a">>, <<"A">>, "published", "en", 1, toISOString(0),
                     toISOString(0))) :
        c \in CreatedAtInputs, s \in States }

\* query parameters of the listing specification: all valid
ListLocaleInputs == {"ko", "en"}
ListPageInputs == {0, 1}
ListSizeInputs == {MinPageSize, MaxPageSize}
ListSortInputs == {<<"createdAt", "desc">>}

\* the locale parameter; "" is absent
LocaleInputs == {"", "ko", "en"}
\* the slug parameter of GET /posts/:slug: empty, held by posts 1 and 3,
\* held by post 2, held by no post
GetSlugInputs == {<<>>, <<"a">>, <<"b">>, <<"0">>}

InitList ==
    /\ posts \in ListStores
    /\ nextId = MaxPosts + 1
    /\ comments = <<>>
    /\ nextCid = 1
    /\ now = 0
    /\ req = [r \in Slots |-> Idle]
    /\ embeddingService = FALSE
    /\ tasks = <<>>
    /\ vectors = {}
    /\ tags = <<>>
    /\ post_tags = {}

NextList ==
    \/ ListTick
    \/ \E r \in Slots :
        \/ \E op \in ListOps, locale \in ListLocaleInputs, page \in ListPageInputs,
              size \in ListSizeInputs, sort \in ListSortInputs :
                ListStart(r, op, locale, page, size, sort)
        \/ ListPage(r)
        \/ ListCount(r)
        \/ ListFinish(r)
        \/ \E id \in 1..(MaxPosts + 1) : GetPostById(r, id)
        \/ \E slug \in GetSlugInputs, locale \in LocaleInputs :
                GetPostStart(r, slug, locale)
        \/ GetPostTranslation(r)
        \/ GetPostVersions(r)
        \/ GetPostViews(r)
        \/ GenerateSitemap(r)
        \/ \E postId \in 1..MaxPosts : DeleteStart(r, postId)
        \/ DeleteWrite(r)

SpecList == InitList /\ [][NextList]_vars

(***************************************************************************)
(* Specification SpecParams: the listings over every kind of page, size    *)
(* and sort parameter, on a store at rest                                  *)
(***************************************************************************)
\* query parameters: page, size, sort
PageInputs == {NaN, -1, 0, 1}
SizeInputs == {NaN, -1, 0, MinPageSize, MaxPageSize, MaxPageSize + 1}
SortInputs ==
    {<<>>, <<"createdAt">>, <<"createdAt", "">>, <<"createdAt", "down">>,
     <<"id", "desc">>, <<"createdAt", "desc">>, <<"updatedAt", "DESC">>,
     <<"title", "ASC">>, <<"views", "asc">>}

\* the store at rest: all three posts published and in the past
ParamStores ==
    {P \in ListStores : P[1].created_at = strftimeNow(0) /\ P[2].state = "published"}

InitParams ==
    /\ posts \in ParamStores
    /\ nextId = MaxPosts + 1
    /\ comments = <<>>
    /\ nextCid = 1
    /\ now = 0
    /\ req = [r \in Slots |-> Idle]
    /\ embeddingService = FALSE
    /\ tasks = <<>>
    /\ vectors = {}
    /\ tags = <<>>
    /\ post_tags = {}

NextParams ==
    \E r \in Slots :
        \/ \E op \in ListOps, locale \in LocaleInputs, page \in PageInputs,
              size \in SizeInputs, sort \in SortInputs :
                ListStart(r, op, locale, page, size, sort)
        \/ ListPage(r)
        \/ ListCount(r)
        \/ ListFinish(r)

SpecParams == InitParams /\ [][NextParams]_vars


(***************************************************************************)
(* Listing and effective publish time                                      *)
(***************************************************************************)
\* the page statement of request r is executed in this step
PageStep(r) ==
    /\ req[r].op \in ListOps
    /\ \/ req[r].pc = "all" /\ req'[r].pc = "count"
       \/ req[r].pc = "page" /\ req'[r].pc = "tags"

\* the count statement of request r is executed in this step
CountStep(r) ==
    /\ req[r].op \in ListOps
    /\ \/ req[r].pc = "all" /\ req'[r].pc = "page"
       \/ req[r].pc = "count" /\ req'[r].pc = "tags"

\* request r returns its response in this step
FinishStep(r) == req[r].op \in ListOps /\ req[r].pc = "tags" /\ req'[r].pc = "done"

\* C12: the page getPosts reads holds only posts that are published, in
\* the requested locale and with created_at not later than the current
\* time; the first page of getAdminPosts holds every post of the locale;
\* and getAdminPosts labels a row "scheduled" exactly when it is published
\* with created_at later than the current time, every other row keeping
\* its stored state.
C12_ScheduledOnlyInAdminListing ==
    [][ \A r \in Slots :
          /\ (PageStep(r) /\ req[r].op = "getPosts") =>
                \A k \in DOMAIN req'[r].list :
                    /\ posts[req'[r].list[k].id].state = "published"
                    /\ posts[req'[r].list[k].id].locale = req[r].locale
                    /\ instant(posts[req'[r].list[k].id].created_at) <= now
          /\ (PageStep(r) /\ req[r].op = "getAdminPosts" /\ req[r].page = 0
                  /\ req[r].size = MaxPageSize) =>
                \A i \in Ids : posts[i].locale = req[r].locale =>
                    \E k \in DOMAIN req'[r].list : req'[r].list[k].id = i
          /\ (FinishStep(r) /\ req[r].op = "getAdminPosts") =>
                \A k \in DOMAIN req[r].list :
                    req'[r].list[k].state =
                        IF /\ req[r].list[k].state = "published"
                           /\ instant(req[r].list[k].created_at) > now
                        THEN "scheduled" ELSE req[r].list[k].state
      ]_vars


\* request r is started in this step as operation op
StartStep(r, op) == Free(r) /\ req'[r] # req[r] /\ req'[r].op = op

\* C13: no public read path exposes a published post whose created_at is
\* later than the current time: the row getPostBySlug finds for a slug or
\* for a numeric id, every slug of the sitemap, and every row of a getPosts
\* page belong to a published post with created_at not in the future.
C13_FuturePostNotExposed ==
    [][ \A r \in Slots :
          /\ (StartStep(r, "getPostBySlug")
                  /\ req'[r].pc \in {"findTranslation", "versions"}) =>
                /\ posts[req'[r].target].state = "published"
                /\ instant(posts[req'[r].target].created_at) <= now
          /\ (StartStep(r, "getPostBySlug") /\ req'[r].result = "redirect") =>
                /\ posts[req'[r].ret].state = "published"
                /\ instant(posts[req'[r].ret].created_at) <= now
          /\ StartStep(r, "generateSitemap") =>
                \A k \in DOMAIN req'[r].list :
                    \E i \in Ids : /\ posts[i].slug = req'[r].list[k]
                                   /\ posts[i].state = "published"
                                   /\ instant(posts[i].created_at) <= now
          /\ (PageStep(r) /\ req[r].op = "getPosts") =>
                \A k \in DOMAIN req'[r].list :
                    instant(posts[req'[r].list[k].id].created_at) <= now
      ]_vars


(***************************************************************************)
(* Listing parameters                                                      *)
(***************************************************************************)
\* C14: a listing request with a negative or non-numeric page, or with a
\* size that is non-numeric or outside [1,100], has ended with
\* ValidationError without a query result; a request with page >= 0 and
\* size in [1,100] (page 0, sizes 1 and 100 among them) is never rejected
\* for its page or size.
C14_PaginationValidatedFirst ==
    \A r \in Slots : req[r].op \in ListOps =>
        IF \/ req[r].page = NaN \/ req[r].page < 0
           \/ req[r].size = NaN \/ req[r].size < 1 \/ req[r].size > 100
        THEN /\ req[r].pc = "done"
             /\ req[r].result = "ValidationError"
             /\ req[r].list = <<>> /\ req[r].total = 0
        ELSE req[r].msg \notin {"Page must be a non-negative integer",
                                "Size must be between 1 and 100"}

\* size 101 with an otherwise valid request is rejected
C14_Witness ==
    \E r \in Slots :
        /\ req[r].op = "getPosts" /\ req[r].pc = "done"
        /\ req[r].page = 0 /\ req[r].size = 101
        /\ req[r].sort = <<"createdAt", "desc">>
        /\ req[r].result = "ValidationError"
        /\ req[r].msg = "Size must be between 1 and 100"


\* C15: the count statement of getPosts counts the rows that satisfy the
\* filters of the page statement, and the response of getPosts holds
\* exactly min(size, max(0, totalElements - page * size)) items, whatever
\* is applied to the store between the page and the count statement.
C15_TotalMatchesPage ==
    [][ \A r \in Slots :
          /\ (CountStep(r) /\ req[r].op = "getPosts") =>
                req'[r].total = Cardinality(publicFilter(req[r].locale))
          /\ (FinishStep(r) /\ req[r].op = "getPosts") =>
                LET rest == req[r].total - req[r].page * req[r].size
                    left == IF rest < 0 THEN 0 ELSE rest
                IN  /\ req'[r].total = req[r].total
                    /\ Len(req'[r].list) =
                          IF req[r].size < left THEN req[r].size ELSE left
      ]_vars


\* C16: a listing request whose sort is empty, whose field is not one of
\* createdAt, updatedAt, views, title, or whose direction part is not asc or
\* desc (in any case) has ended with ValidationError without a query
\* result; and every request that has an ORDER BY clause has one whose
\* column is created_at, updated_at, views or title and whose direction is
\* ASC or DESC.
C16_SortValidatedFirst ==
    \A r \in Slots : req[r].op \in ListOps =>
        /\ (\/ req[r].sort = <<>>
            \/ req[r].sort[1] \notin {"createdAt", "updatedAt", "views", "title"}
            \/ /\ Len(req[r].sort) >= 2
               /\ req[r].sort[2] \notin {"asc", "desc", "ASC", "DESC"})
           => /\ req[r].pc = "done"
              /\ req[r].result = "ValidationError"
              /\ req[r].list = <<>> /\ req[r].total = 0
              /\ req[r].order = <<>>
        /\ req[r].order # <<>> =>
              /\ req[r].order.column \in {"created_at", "updated_at", "views", "title"}
              /\ req[r].order.direction \in {"ASC", "DESC"}

\* a sort by a column outside the allow-list is rejected, with valid page
\* and size
C16_Witness ==
    \E r \in Slots :
        /\ req[r].op = "getAdminPosts" /\ req[r].pc = "done"
        /\ req[r].page = 0 /\ req[r].size = 1
        /\ req[r].sort = <<"id", "desc">>
        /\ req[r].result = "ValidationError"
        /\ req[r].msg = "Sort field must be one of"


(***************************************************************************)
(* EmbeddingService: indexPost, deletePostEmbedding, bulkIndexPosts        *)
(***************************************************************************)
\* vectorize.upsert([{id, values, metadata}]): the vector of that id is
\* replaced
upsert(V, id, metadata) ==
    {v \in V : v.id # id} \cup {[id |-> id, metadata |-> metadata]}

\* vectorize.deleteByIds([id])
deleteByIds(V, id) == {v \in V : v.id # id}

\* sequence T without its element t
removeAt(T, t) == [i \in 1..(Len(T) - 1) |-> IF i < t THEN T[i] ELSE T[i + 1]]

\* what the request awaiting an indexPost call goes on to do with its
\* result: bulkIndexPosts pushes it and loops, the route of
\* generateEmbeddingForPost answers 200 or 400 with result.error
resume(rq, result) ==
    IF rq.op = "bulkIndexPosts"
    THEN [rq EXCEPT !.pc = "loop", !.list = Tail(@),
                    !.seen = @ + (IF result = "success" THEN 1 ELSE 0)]
    ELSE [Idle EXCEPT !.op = rq.op, !.id = rq.id, !.pc = "done",
                      !.result = IF result = "success" THEN "ok" ELSE "400",
                      !.msg = IF result = "success" THEN "" ELSE "embedding failed",
                      !.ret = rq.id]

\* the promise of call t settles with result: an awaited call hands it to
\* its waiter, the result of any other call is logged and kept by nobody
SettleFrom(T, t, result) ==
    IF T[t].waiter = NULL
    THEN /\ tasks' = [T EXCEPT ![t].pc = "done", ![t].result = result]
         /\ UNCHANGED req
    ELSE /\ tasks' = removeAt(T, t)
         /\ req' = [req EXCEPT ![T[t].waiter] = resume(@, result)]

Settle(t, result) == SettleFrom(tasks, t, result)

MAX_RETRIES == 3
RETRY_DELAY_MS == 1000

retryForever(attempt) == TRUE

\* if (attempt < MAX_RETRIES - 1): the failed attempt is followed by a wait
retryAfter(attempt) == attempt < MAX_RETRIES - 1

\* RETRY_DELAY_MS * Math.pow(2, attempt)
retryDelay(attempt) == RETRY_DELAY_MS * 2^attempt

\* generateEmbedding: one pass of its loop, a request to the embedding API.
\* When it answers with an embedding (ok) that is returned and indexPost
\* goes on to upsert.  Otherwise the error is kept as lastError, the delay
\* is awaited unless this was the last pass, and the loop goes on; when it
\* ends the last error is thrown, caught by indexPost and returned as
\* {success: false}.
EmbedGenerate(t, ok) ==
    /\ t \in 1..Len(tasks)
    /\ tasks[t].kind = "indexPost" /\ tasks[t].pc = "generateEmbedding"
    /\ tasks[t].attempt < MAX_RETRIES
    /\ IF ok
       THEN /\ tasks' = [tasks EXCEPT ![t].pc = "upsert"]
            /\ UNCHANGED req
       ELSE LET T == [tasks EXCEPT
                         ![t].attempt = @ + 1,
                         ![t].delays = IF retryAfter(tasks[t].attempt)
                                       THEN Append(@, retryDelay(tasks[t].attempt))
                                       ELSE @]
            IN  IF T[t].attempt < MAX_RETRIES
                THEN tasks' = T /\ UNCHANGED req
                ELSE SettleFrom(T, t, "failure")
    /\ UNCHANGED <<posts, nextId, comments, nextCid, now, embeddingService, vectors>>
    /\ UNCHANGED tagVars

\* vectorize.upsert of indexPost; a failing call is caught and returned as
\* {success: false}
EmbedUpsert(t, ok) ==
    /\ t \in 1..Len(tasks)
    /\ tasks[t].kind = "indexPost" /\ tasks[t].pc = "upsert"
    /\ vectors' = IF ok THEN upsert(vectors, vectorId(tasks[t].post), tasks[t].meta)
                  ELSE vectors
    /\ Settle(t, IF ok THEN "success" ELSE "failure")
    /\ UNCHANGED <<posts, nextId, comments, nextCid, now, embeddingService>>
    /\ UNCHANGED tagVars

\* vectorize.deleteByIds of deletePostEmbedding; a failing call is caught
\* and false is returned
EmbedDelete(t, ok) ==
    /\ t \in 1..Len(tasks)
    /\ tasks[t].kind = "deletePostEmbedding" /\ tasks[t].pc = "deleteByIds"
    /\ vectors' = IF ok THEN deleteByIds(vectors, vectorId(tasks[t].post)) ELSE vectors
    /\ Settle(t, IF ok THEN "success" ELSE "failure")
    /\ UNCHANGED <<posts, nextId, comments, nextCid, now, embeddingService>>
    /\ UNCHANGED tagVars

\* POST /admin/posts/:postId/embed: generateEmbeddingForPost reads the post
\* and awaits indexPost
ManualEmbed(r, postId) ==
    /\ Free(r)
    /\ IF postId = NaN
       THEN /\ Throw(r, "ValidationError", "Invalid post ID")
            /\ UNCHANGED tasks
       ELSE IF ~embeddingService
       THEN /\ Throw(r, "400", "Embedding service not configured")
            /\ UNCHANGED tasks
       ELSE IF ~Exists(postId)
       THEN /\ Throw(r, "400", "Post not found")
            /\ UNCHANGED tasks
       ELSE /\ TaskLeft
            /\ req' = [req EXCEPT ![r] = [Idle EXCEPT !.op = "generateEmbeddingForPost",
                                              !.id = postId, !.pc = "await"]]
            /\ tasks' = Append(tasks, indexPost(posts[postId],
                                                "generateEmbeddingForPost", r))
    /\ UNCHANGED <<posts, nextId, comments, nextCid, now, embeddingService, vectors>>
    /\ UNCHANGED tagVars

\* the orders in which a statement may return the rows S
Orderings(S) ==
    {f \in [1..Cardinality(S) -> S] :
        \A i, j \in 1..Cardinality(S) : i # j => f[i] # f[j]}

\* postRepository.findAllForEmbedding(): every row of posts
findAllForEmbedding == Ids

\* POST /admin/posts/embed/bulk: the rows of findAllForEmbedding are handed
\* to bulkIndexPosts
BulkStart(r) ==
    /\ Free(r)
    /\ \E f \in Orderings(findAllForEmbedding) :
          req' = [req EXCEPT ![r] = [Idle EXCEPT !.op = "bulkIndexPosts", !.pc = "loop",
                                         !.list = [i \in DOMAIN f |-> posts[f[i]]],
                                         !.total = Cardinality(findAllForEmbedding)]]
    /\ UNCHANGED <<posts, nextId, comments, nextCid, now>>
    /\ UNCHANGED embedVars
    /\ UNCHANGED tagVars

\* bulkIndexPosts: for (const post of posts) await this.indexPost(...),
\* then {total, succeeded, failed, results} is returned
BulkIndex(r) ==
    /\ req[r].op = "bulkIndexPosts" /\ req[r].pc = "loop"
    /\ IF req[r].list = <<>>
       THEN /\ Finish(r, "ok", req[r].seen)
            /\ UNCHANGED tasks
       ELSE /\ TaskLeft
            /\ req' = [req EXCEPT ![r].pc = "await"]
            /\ tasks' = Append(tasks, indexPost(Head(req[r].list), "bulkIndexPosts", r))
    /\ UNCHANGED <<posts, nextId, comments, nextCid, now, embeddingService, vectors>>
    /\ UNCHANGED tagVars

(***************************************************************************)
(* Specification SpecEmbed: the admin API with the Vectorize and AI        *)
(* bindings, on a store of one published post that is not yet indexed      *)
(***************************************************************************)
EmbedSlugInputs == {<<>>, <<"b">>}
EmbedOrigInputs == {NULL, 1}
EmbedIds == {NaN} \cup (1..MaxPosts)
\* the admin client sends one request at a time; the embedding calls its
\* requests started run on beside the next request
EmbedSlots == {1}

InitEmbed ==
    /\ posts = (1 :> NewPost(1, <<"a">>, "published", "ko", NULL))
    /\ nextId = 2
    /\ comments = <<>>
    /\ nextCid = 1
    /\ now = 0
    /\ req = [r \in Slots |-> Idle]
    /\ embeddingService = TRUE
    /\ tasks = <<>>
    /\ vectors = {}
    /\ tags = <<>>
    /\ post_tags = {}

NextEmbed ==
    \/ \E r \in EmbedSlots :
        \/ \E title \in Titles, slugIn \in EmbedSlugInputs, orig \in EmbedOrigInputs :
                CreateStart(r, title, slugIn, IF orig = NULL THEN "ko" ELSE "en",
                            "published", orig)
        \/ CreateInsert(r)
        \/ \E postId \in 1..MaxPosts, slugIn \in EmbedSlugInputs, state \in States :
                UpdateStart(r, postId, slugIn, state)
        \/ UpdateSlugCheck(r)
        \/ UpdateWrite(r)
        \/ \E postId \in 1..MaxPosts : DeleteStart(r, postId)
        \/ DeleteWrite(r)
        \/ \E postId \in 1..MaxPosts : TranslateStart(r, postId, "en")
        \/ TranslateFind(r)
        \/ TranslateAI(r, <<"A">>, TRUE)
        \/ TranslateCreate(r)
        \/ \E postId \in EmbedIds : ManualEmbed(r, postId)
        \/ BulkStart(r)
        \/ BulkIndex(r)
    \/ \E t \in 1..MaxTasks, ok \in BOOLEAN :
        \/ EmbedGenerate(t, ok)
        \/ EmbedUpsert(t, ok)
        \/ EmbedDelete(t, ok)

SpecEmbed == InitEmbed /\ [][NextEmbed]_vars


(***************************************************************************)
(* Embedding calls and the write handlers                                  *)
(***************************************************************************)
\* the calls createPost, updatePost and deletePost start
Triggered(t) == tasks[t].by \in {"triggerEmbedding", "deletePost"}

\* this step is one of call t: it advances, settles or is taken off
StepOf(t) ==
    /\ tasks[t].pc # "done"
    /\ \/ tasks' = removeAt(tasks, t)
       \/ Len(tasks') = Len(tasks) /\ tasks'[t] # tasks[t]

\* C17: whatever an embedding call started by createPost, updatePost or
\* deletePost does (it generates, upserts, deletes, fails for good), the
\* step changes neither the outcome any request has or will have (returned
\* value or error) nor the store: the handler's result was fixed when it
\* started the call, and nothing of the call is raised to it.
C17_EmbeddingNeverReachesCaller ==
    [][\A t \in 1..Len(tasks) :
          Triggered(t) /\ StepOf(t) => UNCHANGED <<req, posts, nextId, comments>>]_vars

\* a write returned its post although the call it started failed for good,
\* and another write returned while its call is still under way
C17_Witness ==
    \E t, u \in 1..Len(tasks), r \in Slots :
        /\ tasks[t].by = "triggerEmbedding" /\ tasks[t].result = "failure"
        /\ tasks[u].by = "triggerEmbedding" /\ tasks[u].pc = "generateEmbedding"
        /\ req[r].pc = "done" /\ req[r].result = "ok"
        /\ req[r].ret = tasks[u].post


(***************************************************************************)
(* The keys of the Vectorize index                                         *)
(***************************************************************************)
\* C20: every vector of the index is keyed post-{id} by the id of an
\* identity post (original_post_id null): no vector is keyed by the id of a
\* translation, whichever of create, update, translate, the embed route and
\* the bulk route wrote it.
C20_VectorsKeyedByIdentity ==
    \A v \in vectors : \A p \in Ids :
        v.id = vectorId(p) => posts[p].original_post_id = NULL


(***************************************************************************)
(* EmbeddingService.findSimilarPosts and getPostBySlugWithRelated          *)
(***************************************************************************)
\* the embeddings are points of a line; the score of two of them is higher
\* the nearer they are
VectorValues == {0, 1}
score(a, b) == IF a < b THEN 1 - (b - a) ELSE 1 - (a - b)

\* vectorize.getByIds([id])
getByIds(V, id) == {v \in V : v.id = id}

\* vectorize.query(values, {topK, returnMetadata: "all", filter: {state:
\* "published"}}): the topK nearest vectors of that state by descending
\* score, vectors of equal score in any order
query(V, values, topK) ==
    LET S == {v \in V : v.metadata.state = "published"}
        sorted == {f \in Orderings(S) :
                      \A i, j \in DOMAIN f :
                          i < j => score(values, f[i].values) >= score(values, f[j].values)}
    IN  {[i \in 1..(IF Len(f) < topK THEN Len(f) ELSE topK) |->
            [id |-> f[i].id, score |-> score(values, f[i].values),
             metadata |-> f[i].metadata]] : f \in sorted}

\* matches.filter(match.id !== vectorId).slice(0, topK).map(...)
relatedOf(matches, self, topK) ==
    LET others == SelectSeq(matches, LAMBDA m : m.id # self)
    IN  [i \in 1..(IF Len(others) < topK THEN Len(others) ELSE topK) |->
            [id |-> others[i].metadata.postId, slug |-> others[i].metadata.slug,
             score |-> others[i].score]]

\* findSimilarPosts returns relatedPosts
found(rq, related, msg) ==
    [rq EXCEPT !.pc = "done", !.result = "ok", !.relatedPosts = related,
               !.msg = msg, !.values = NULL]

findSimilarRethrows(rq) ==
    [Idle EXCEPT !.op = rq.op, !.id = rq.id, !.topK = rq.topK, !.pc = "done",
                 !.result = "InternalServerError",
                 !.msg = "Failed to find similar posts"]

\* catch (error) { logger?.warn("Failed to find similar posts"); return [] }
findSimilarCatch(rq) == found(rq, <<>>, "Failed to find similar posts")

\* topK of getPostBySlugWithRelated
DefaultTopK == 4

\* findSimilarPosts(postId, topK) is called
FindSimilar(r, postId, topK) ==
    /\ Free(r)
    /\ req' = [req EXCEPT ![r] = [Idle EXCEPT !.op = "findSimilarPosts", !.id = postId,
                                      !.topK = topK, !.pc = "getByIds"]]
    /\ UNCHANGED <<posts, nextId, comments, nextCid, now>>
    /\ UNCHANGED embedVars
    /\ UNCHANGED tagVars

\* getPostBySlugWithRelated after its getPostBySlug returned a post: with an
\* embedding service findSimilarPosts(result.data.id, 4) is awaited.  A
\* redirect is returned and an error is thrown on as it is.
GetPostRelated(r) ==
    /\ req[r].op = "getPostBySlug" /\ req[r].pc = "done" /\ req[r].result = "ok"
    /\ req' = [req EXCEPT ![r] =
                  IF embeddingService
                  THEN [@ EXCEPT !.op = "getPostBySlugWithRelated", !.id = req[r].ret,
                                 !.topK = DefaultTopK, !.pc = "getByIds"]
                  ELSE [@ EXCEPT !.op = "getPostBySlugWithRelated", !.id = req[r].ret]]
    /\ UNCHANGED <<posts, nextId, comments, nextCid, now>>
    /\ UNCHANGED embedVars
    /\ UNCHANGED tagVars

FindOps == {"findSimilarPosts", "getPostBySlugWithRelated"}

\* vectorize.getByIds([vectorId]): ok is whether the call answers
FindGetByIds(r, ok) ==
    /\ req[r].op \in FindOps /\ req[r].pc = "getByIds"
    /\ IF ~ok
       THEN req' = [req EXCEPT ![r] = findSimilarCatch(@)]
       ELSE IF getByIds(vectors, vectorId(req[r].id)) = {}
       THEN req' = [req EXCEPT ![r] = found(@, <<>>, "No vector found for post")]
       ELSE \E v \in getByIds(vectors, vectorId(req[r].id)) :
               req' = [req EXCEPT ![r].pc = "query", ![r].values = v.values]
    /\ UNCHANGED <<posts, nextId, comments, nextCid, now>>
    /\ UNCHANGED embedVars
    /\ UNCHANGED tagVars

\* vectorize.query(...) with topK + 1, then the self match is filtered out
\* and the first topK matches are returned
FindQuery(r, ok) ==
    /\ req[r].op \in FindOps /\ req[r].pc = "query"
    /\ IF ~ok
       THEN req' = [req EXCEPT ![r] = findSimilarCatch(@)]
       ELSE \E matches \in query(vectors, req[r].values, req[r].topK + 1) :
               req' = [req EXCEPT ![r] =
                          found(@, relatedOf(matches, vectorId(req[r].id), req[r].topK),
                                "Found similar posts")]
    /\ UNCHANGED <<posts, nextId, comments, nextCid, now>>
    /\ UNCHANGED embedVars
    /\ UNCHANGED tagVars

(***************************************************************************)
(* Specification SpecRelated: GET /posts/:slug and findSimilarPosts on     *)
(* every content of the index                                              *)
(***************************************************************************)
\* publishedAt of an indexed post: null for a draft; for a published post
\* its created_at, now or a second from now
IndexedAs ==
    {[state |-> "draft", publishedAt |-> NULL],
     [state |-> "published", publishedAt |-> strftimeNow(0)],
     [state |-> "published", publishedAt |-> toISOString(TicksPerSecond)]}

\* the vector indexPost wrote for post i when it was as `as`
vectorOf(i, as, values) ==
    [id |-> vectorId(i), values |-> values,
     metadata |-> [postId |-> i, slug |-> posts[i].slug, state |-> as.state,
                   publishedAt |-> as.publishedAt]]

KInputs == {0, 1, 2}
RelatedSlugInputs == {<<>>, <<"a">>, <<"0">>}
RelatedSlots == {1}

InitRelated ==
    /\ posts \in ParamStores
    /\ nextId = MaxPosts + 1
    /\ comments = <<>>
    /\ nextCid = 1
    /\ now = 0
    /\ req = [r \in Slots |-> Idle]
    /\ embeddingService = TRUE
    /\ tasks = <<>>
    /\ \E indexed \in SUBSET (1..MaxPosts) :
       \E as \in [indexed -> IndexedAs], values \in [indexed -> VectorValues] :
          vectors = {vectorOf(i, as[i], values[i]) : i \in indexed}
    /\ tags = <<>>
    /\ post_tags = {}

NextRelated ==
    \E r \in RelatedSlots :
        \/ \E postId \in 1..MaxPosts, topK \in KInputs : FindSimilar(r, postId, topK)
        \/ \E id \in 1..(MaxPosts + 1) : GetPostById(r, id)
        \/ \E slug \in RelatedSlugInputs : GetPostStart(r, slug, "")
        \/ GetPostVersions(r)
        \/ GetPostViews(r)
        \/ GetPostRelated(r)
        \/ \E ok \in BOOLEAN : FindGetByIds(r, ok)
        \/ \E ok \in BOOLEAN : FindQuery(r, ok)

SpecRelated == InitRelated /\ [][NextRelated]_vars


\* a call of findSimilarPosts that has returned or thrown
Answered(r) == req[r].op \in FindOps /\ req[r].pc = "done"

\* the call found no vector of its post, or a call of the index failed
Degraded(r) ==
    req[r].msg \in {"No vector found for post", "Failed to find similar posts"}

\* C18: a findSimilarPosts whose post has no vector in the index, or whose
\* getByIds or query fails, returns the empty list and throws nothing; the
\* getPostBySlugWithRelated that called it then returns the post it read
\* with no related posts.
C18_FindSimilarDegradesToEmpty ==
    \A r \in Slots :
        Answered(r) /\ Degraded(r) =>
            /\ req[r].result = "ok"
            /\ req[r].relatedPosts = <<>>
            /\ req[r].op = "getPostBySlugWithRelated" =>
                  /\ req[r].ret = req[r].id
                  /\ req[r].ret \in findPublishedBySlug(req[r].slug)

\* GET /posts/:slug answered with its post and no related posts after a
\* call of the index failed
C18_Witness ==
    \E r \in Slots :
        /\ Answered(r) /\ req[r].op = "getPostBySlugWithRelated"
        /\ req[r].msg = "Failed to find similar posts"
        /\ getByIds(vectors, vectorId(req[r].id)) # {}
        /\ req[r].result = "ok" /\ req[r].relatedPosts = <<>>

\* the vector of the post a related post names
vectorOfPost(id) == CHOOSE v \in vectors : v.id = vectorId(id)

\* the publishedAt of the metadata (null for a draft) lies after the clock
futureDated(metadata) ==
    metadata.state = "published" /\ instant(metadata.publishedAt) > now

\* the vectors findSimilarPosts(id, ...) may return
eligible(id) ==
    {v \in vectors : /\ v.id # vectorId(id)
                     /\ v.metadata.state = "published"
                     /\ ~futureDated(v.metadata)}

\* C19: findSimilarPosts(id, k) returns at most k posts, never the post id
\* itself, never a post whose vector is marked unpublished or carries a
\* publishedAt in the future, in descending order of score, and exactly k
\* of them when the index holds k eligible neighbours and answers.
C19_SimilarPostsEligible ==
    \A r \in Slots :
        Answered(r) /\ req[r].result = "ok" =>
            LET res == req[r].relatedPosts
            IN  /\ Len(res) <= req[r].topK
                /\ \A i \in DOMAIN res :
                      /\ res[i].id # req[r].id
                      /\ vectorOfPost(res[i].id).metadata.state = "published"
                      /\ ~futureDated(vectorOfPost(res[i].id).metadata)
                /\ \A i, j \in DOMAIN res : i < j => res[i].score >= res[j].score
                /\ (req[r].msg = "Found similar posts"
                      /\ Cardinality(eligible(req[r].id)) >= req[r].topK)
                   => Len(res) = req[r].topK


(***************************************************************************)
(* The ORDER BY clause of an accepted sort                                 *)
(***************************************************************************)
\* C30: a listing request whose page, size and sort pass validatePagination
\* and validateSorting has a well-formed ORDER BY clause, its column mapped
\* from the field and its direction ASC or DESC, the direction being DESC
\* when the sort has no direction part; it never ends with an
\* InternalServerError.
C30_AcceptedSortIsOrdered ==
    \A r \in Slots :
        (/\ req[r].op \in ListOps
         /\ validatePagination(req[r].page, req[r].size) = {}
         /\ validateSorting(req[r].sort, allowedSortFields) = {})
        => /\ req[r].result # "InternalServerError"
           /\ req[r].order # <<>>
           /\ req[r].order.column = fieldMapping(req[r].sort[1])
           /\ req[r].order.direction =
                 toUpperCaseWord(directionOrDefault(req[r].sort))


(***************************************************************************)
(* Specification SpecSlug: createPost on titles and slugs of every shape   *)
(***************************************************************************)
\* titles validatePostRequest accepts (a string of at least one character
\* that is not blank): letters, a title without any letter or digit, and
\* titles with runs of other characters inside and at the ends
SlugTitles == {<<"A">>, <<"!">>, <<"A", "!", "!", "B">>, <<"!", "0", "!">>}
\* slug of the request body: absent, valid, and shapes validateSlug rejects
SlugShapes == {<<>>, <<"b">>, <<"a", "-", "b">>, <<"B">>, <<"a", "-", "-", "b">>, <<"-", "a">>}

InitSlug == Init

NextSlug ==
    \E r \in Slots :
        \/ \E title \in SlugTitles, slugIn \in SlugShapes, locale \in Locales :
                CreateStart(r, title, slugIn, locale, "published", NULL)
        \/ CreateInsert(r)

SpecSlug == InitSlug /\ [][NextSlug]_vars

\* C29: every row of posts has a slug that is not empty and matches
\* validateSlug's pattern, whether the request supplied the slug or
\* generateSlug derived it from the title.
C29_PersistedSlugWellFormed ==
    \A i \in Ids : validSlug(posts[i].slug)


(***************************************************************************)
(* Specification SpecRead: getPostBySlug on a store at rest, and the call  *)
(* that follows a redirect                                                 *)
(***************************************************************************)
\* post 1 is a published Korean original with slug a.  Post 2 is its
\* English translation: a draft with the original's slug as the translate
\* route creates it, or published, or with a slug of its own.  Post 3 is a
\* Korean post with slug b, on its own or created by createPost with
\* originalPostId 1 and the default locale.
ReadStores ==
    { (1 :> NewPost(1, <<"a">>, "published", "ko", NULL)) @@
      (2 :> NewPost(2, slug, state, "en", 1)) @@
      (3 :> NewPost(3, <<"b">>, "published", "ko", orig)) :
        slug \in {<<"a">>, <<"b">>}, state \in States, orig \in {NULL, 1} }

\* the client follows a redirect: getPostBySlug with the slug and locale
\* of the answer; post.locale of a numeric redirect is undefined
GetPostFollow(r) ==
    /\ req[r].op = "getPostBySlug" /\ req[r].pc = "done" /\ req[r].result = "redirect"
    /\ ~req[r].follows
    /\ GetPostCall(r, req[r].slug,
                   IF req[r].locale = "undefined" THEN "" ELSE req[r].locale, TRUE)

InitRead ==
    /\ posts \in ReadStores
    /\ nextId = MaxPosts + 1
    /\ comments = <<>>
    /\ nextCid = 1
    /\ now = 0
    /\ req = [r \in Slots |-> Idle]
    /\ embeddingService = FALSE
    /\ tasks = <<>>
    /\ vectors = {}
    /\ tags = <<>>
    /\ post_tags = {}

NextRead ==
    \E r \in Slots :
        \/ \E id \in 1..(MaxPosts + 1) : GetPostById(r, id)
        \/ \E slug \in GetSlugInputs, locale \in LocaleInputs :
                GetPostStart(r, slug, locale)
        \/ GetPostFollow(r)
        \/ GetPostTranslation(r)
        \/ GetPostVersions(r)
        \/ GetPostViews(r)

SpecRead == InitRead /\ [][NextRead]_vars

\* the identity of post i as the store holds it
identityOf(i) ==
    IF posts[i].original_post_id # NULL THEN posts[i].original_post_id ELSE i

\* the translation rows of the identity of post i in the locale
translationsIn(i, locale) ==
    {t \in Ids : posts[t].original_post_id = identityOf(i) /\ posts[t].locale = locale}

\* the call of slot r answers in this step
Answers(r) ==
    /\ req[r].op = "getPostBySlug" /\ req[r].pc \in {"findTranslation", "views"}
    /\ req'[r].pc = "done"

\* C24: a getPostBySlug that found a published post for its slug answers
\* with the redirect to a translation row of the post's identity in the
\* requested locale exactly when a locale is requested, the post found has
\* another locale and such a row exists; otherwise it answers with the data
\* of the post found.  A numeric slug is answered with not-found or the
\* redirect to the slug of the published post of that id.
C24_RedirectExactlyToTranslation ==
    [][\A r \in Slots :
          /\ Answers(r) =>
                IF /\ req[r].locale # ""
                   /\ posts[req[r].target].locale # req[r].locale
                   /\ translationsIn(req[r].target, req[r].locale) # {}
                THEN /\ req'[r].result = "redirect"
                     /\ req'[r].ret \in translationsIn(req[r].target, req[r].locale)
                     /\ req'[r].slug = posts[req'[r].ret].slug
                     /\ req'[r].locale = req[r].locale
                ELSE /\ req'[r].result = "ok"
                     /\ req'[r].ret = req[r].target
          /\ (Free(r) /\ req'[r] # req[r] /\ req'[r].pc = "done"
                 /\ req'[r].result = "redirect") =>
                /\ posts[req'[r].ret].state = "published"
                /\ req'[r].slug = posts[req'[r].ret].slug]_vars

\* C25: the call that follows a redirect to (slug, locale) is answered with
\* the data of a post of that locale, never with another redirect nor with
\* not-found.
C25_RedirectTerminates ==
    [][\A r \in Slots :
          (req'[r] # req[r] /\ req'[r].follows /\ req'[r].pc = "done") =>
              /\ req'[r].result = "ok"
              /\ req[r].pc # "done"
              /\ req[r].locale # "" => posts[req'[r].ret].locale = req[r].locale]_vars


(***************************************************************************)
(* Specification SpecIndex: createPost, updatePost and deletePost with the *)
(* embedding calls they start, on the store of SpecEmbed; no other route   *)
(* writes the index                                                        *)
(***************************************************************************)
InitIndex == InitEmbed

NextIndex ==
    \/ \E r \in EmbedSlots :
        \/ \E title \in Titles, slugIn \in EmbedSlugInputs :
                CreateStart(r, title, slugIn, "ko", "published", NULL)
        \/ CreateInsert(r)
        \/ \E postId \in 1..MaxPosts, slugIn \in EmbedSlugInputs, state \in States :
                UpdateStart(r, postId, slugIn, state)
        \/ UpdateSlugCheck(r)
        \/ UpdateWrite(r)
        \/ \E postId \in 1..MaxPosts : DeleteStart(r, postId)
        \/ DeleteWrite(r)
    \/ \E t \in 1..MaxTasks, ok \in BOOLEAN :
        \/ EmbedGenerate(t, ok)
        \/ EmbedUpsert(t, ok)
        \/ EmbedDelete(t, ok)

SpecIndex == InitIndex /\ [][NextIndex]_vars

\* the embedding calls started for post P
tasksOf(P) == {t \in 1..Len(tasks) : tasks[t].post = P}

\* every call started for post P has completed without an index error
settled(P) ==
    \A t \in tasksOf(P) : tasks[t].pc = "done" /\ tasks[t].result = "success"

\* C21: once deletePost(P) has returned and every embedding call started
\* for P (the indexPost calls of earlier writes and the deletePostEmbedding
\* call of the delete) has completed without an index error, the index
\* holds no vector keyed post-P, in whichever order the calls ran.
C21_DeletedPostLeavesNoVector ==
    \A P \in 1..MaxPosts :
        /\ ~Exists(P)
        /\ \E t \in tasksOf(P) : tasks[t].kind = "deletePostEmbedding"
        /\ settled(P)
        => ~\E v \in vectors : v.id = vectorId(P)

\* C28: once every embedding call started by the createPost and updatePost
\* calls on a post has completed successfully and no write is under way,
\* the metadata of the post's vector is that of the post's current row: a
\* later update's upsert is not overwritten by an earlier one's.
C28_VectorMetadataCurrent ==
    \A P \in Ids :
        /\ Writing = {}
        /\ tasksOf(P) # {}
        /\ \A t \in tasksOf(P) : tasks[t].by = "triggerEmbedding"
        /\ settled(P)
        => \E v \in vectors : v.id = vectorId(P) /\ v.metadata = metadataOf(posts[P])


(***************************************************************************)
(* The retry loop of generateEmbedding                                     *)
(***************************************************************************)
\* the indexPost calls
indexCalls == {t \in 1..Len(tasks) : tasks[t].kind = "indexPost"}

\* the waits after the first n failed attempts, doubling from RETRY_DELAY_MS
backoff(n) == [i \in 1..n |-> RETRY_DELAY_MS * 2^(i - 1)]

\* what the loop has done besides waiting: at most MAX_RETRIES attempts,
\* an embedding is returned by the attempt that got it, all attempts before
\* it having failed, and MAX_RETRIES failures end the call with the result
\* {success: false}
attemptsBounded(t) ==
    /\ tasks[t].attempt \in 0..MAX_RETRIES
    /\ tasks[t].pc = "generateEmbedding" => tasks[t].attempt < MAX_RETRIES
    /\ tasks[t].pc = "upsert" \/ tasks[t].result = "success"
            => tasks[t].attempt < MAX_RETRIES
    /\ tasks[t].attempt = MAX_RETRIES
            => tasks[t].pc = "done" /\ tasks[t].result = "failure"

\* C23 as stated: generateEmbedding makes at most 3 attempts, returns on
\* the first that succeeds, waits 1 s, 2 s and 4 s after the failed
\* attempts, and after the third failure surfaces the last error, which
\* indexPost reports as {success: false}.
C23_RetryBackoffAsStated ==
    \A t \in indexCalls :
        /\ attemptsBounded(t)
        /\ tasks[t].delays = backoff(tasks[t].attempt)

\* C23: generateEmbedding makes at most 3 attempts, returns on the first
\* that succeeds, waits 1 s after the first failed attempt and 2 s after the
\* second and does not wait after the third, and after the third failure
\* surfaces the last error, which indexPost reports as {success: false}.
C23_RetryBackoff ==
    \A t \in indexCalls :
        /\ attemptsBounded(t)
        /\ tasks[t].delays =
              backoff(IF tasks[t].attempt < MAX_RETRIES THEN tasks[t].attempt
                      ELSE MAX_RETRIES - 1)

\* one call failed three times and ended with {success: false} after waits
\* of 1 s and 2 s; another got its embedding at the second attempt
C23_Witness ==
    \E t, u \in indexCalls :
        /\ tasks[t].attempt = MAX_RETRIES /\ tasks[t].result = "failure"
        /\ tasks[t].delays = <<1000, 2000>>
        /\ tasks[u].attempt = 1 /\ tasks[u].result = "success"
        /\ tasks[u].delays = <<1000>>


(***************************************************************************)
(* Tags: PostService.associateTags and the tag-set replacement             *)
(***************************************************************************)
\* tagQueries.selectByName: the id of the tag with this name, NULL if none
findTagByName(name) ==
    IF \E i \in DOMAIN tags : tags[i].name = name
    THEN CHOOSE i \in DOMAIN tags : tags[i].name = name
    ELSE NULL

\* tags.name is declared UNIQUE
tagAccepted(T, name) == \A i \in DOMAIN T : T[i].name # name

\* tagQueries.insert: INSERT INTO tags (name, created_at, post_count)
\* VALUES (?, ?, 0); the new row gets the next id
createTag(T, name) == Append(T, [name |-> name, post_count |-> 0])

\* post_tags has PRIMARY KEY (post_id, tag_id) and both columns reference
\* their tables
postTagAccepted(PT, postId, tagId) ==
    /\ <<postId, tagId>> \notin PT
    /\ Exists(postId)
    /\ tagId \in DOMAIN tags

\* postTagQueries.insert: INSERT INTO post_tags (post_id, tag_id)
createPostTag(PT, postId, tagId) == PT \cup {<<postId, tagId>>}

\* postTagQueries.selectTagsByPostId: the names of the post's tags
getTagsByPostId(postId) == {tags[pt[2]].name : pt \in {q \in post_tags : q[1] = postId}}

\* createPost or updatePost throws after its first statement: the slot
\* keeps the call and its outcome
Fail(r, class, msg) ==
    req' = [req EXCEPT ![r] = [Idle EXCEPT !.op = req[r].op, !.id = req[r].id,
                !.tags = req[r].tags, !.pc = "done", !.result = class, !.msg = msg]]

TagOps == {"createPost", "updatePost"}

\* updatePost: repository.deletePostTags(postId)
UpdateDeleteTags(r) ==
    /\ req[r].op = "updatePost" /\ req[r].pc = "deletePostTags"
    /\ post_tags' = deletePostTags(post_tags, req[r].id)
    /\ req' = [req EXCEPT ![r].pc = IF req[r].tags # <<>> THEN "findTagByName"
                                    ELSE "getPostWithTags",
                          ![r].list = req[r].tags]
    /\ UNCHANGED <<posts, nextId, comments, nextCid, now, tags>>
    /\ UNCHANGED embedVars

\* associateTags, for (const tagName of tags): repository.findTagByName
TagFind(r) ==
    /\ req[r].op \in TagOps /\ req[r].pc = "findTagByName"
    /\ req' = [req EXCEPT ![r].tagId = findTagByName(Head(req[r].list)),
                          ![r].pc = IF findTagByName(Head(req[r].list)) = NULL
                                    THEN "createTag" ELSE "createPostTag"]
    /\ UNCHANGED <<posts, nextId, comments, nextCid, now>>
    /\ UNCHANGED embedVars
    /\ UNCHANGED tagVars

\* associateTags, if (!tag): repository.createTag(tagName, timestamp)
TagCreate(r) ==
    /\ req[r].op \in TagOps /\ req[r].pc = "createTag"
    /\ IF tagAccepted(tags, Head(req[r].list))
       THEN /\ tags' = createTag(tags, Head(req[r].list))
            /\ req' = [req EXCEPT ![r].tagId = Len(tags) + 1, ![r].pc = "createPostTag"]
       ELSE /\ Fail(r, "InternalServerError", "UNIQUE constraint failed")
            /\ UNCHANGED tags
    /\ UNCHANGED <<posts, nextId, comments, nextCid, now, post_tags>>
    /\ UNCHANGED embedVars

\* associateTags: repository.createPostTag(postId, tagId), then the next
\* tag of the request
TagLink(r) ==
    /\ req[r].op \in TagOps /\ req[r].pc = "createPostTag"
    /\ IF postTagAccepted(post_tags, req[r].id, req[r].tagId)
       THEN /\ post_tags' = createPostTag(post_tags, req[r].id, req[r].tagId)
            /\ req' = [req EXCEPT ![r].list = Tail(@),
                                  ![r].pc = IF Tail(req[r].list) = <<>>
                                            THEN "getPostWithTags" ELSE "findTagByName"]
       ELSE /\ Fail(r, "InternalServerError",
                    IF <<req[r].id, req[r].tagId>> \in post_tags
                    THEN "UNIQUE constraint failed"
                    ELSE "FOREIGN KEY constraint failed")
            /\ UNCHANGED post_tags
    /\ UNCHANGED <<posts, nextId, comments, nextCid, now, tags>>
    /\ UNCHANGED embedVars

\* getPostWithTags(postId): the post is read back with its tags, its
\* embedding call is started when the row was found, and the post is
\* returned (null when the row is gone)
WriteFinish(r) ==
    /\ req[r].op \in TagOps /\ req[r].pc = "getPostWithTags"
    /\ tasks' = IF Exists(req[r].id)
                THEN dispatch(tasks, embeddingService,
                              triggerEmbedding(r, posts[req[r].id]))
                ELSE tasks
    /\ req' = [req EXCEPT ![r] = [Idle EXCEPT !.op = req[r].op, !.id = req[r].id,
                   !.tags = req[r].tags, !.pc = "done", !.result = "ok",
                   !.ret = IF Exists(req[r].id) THEN req[r].id ELSE NULL]]
    /\ UNCHANGED <<posts, nextId, comments, nextCid, now>>
    /\ UNCHANGED <<embeddingService, vectors>>
    /\ UNCHANGED tagVars

(***************************************************************************)
(* Specification SpecTags: createPost, updatePost and deletePost with tags *)
(* on a store of one post and one tag no post carries                      *)
(***************************************************************************)
\* the tags arrays of the request bodies: tag "x" exists, tag "y" does not
TagInputs == {<<>>, <<"x">>, <<"y">>, <<"y", "y">>}
TagSlugInputs == {<<>>, <<"b">>}
\* the posts the requests update (the post of the initial store) and delete
TagUpdateIds == {1}
TagDeleteIds == 1..2

InitTags ==
    /\ posts = (1 :> NewPost(1, <<"a">>, "published", "ko", NULL))
    /\ nextId = 2
    /\ comments = <<>>
    /\ nextCid = 1
    /\ now = 0
    /\ req = [r \in Slots |-> Idle]
    /\ embeddingService = FALSE
    /\ tasks = <<>>
    /\ vectors = {}
    /\ tags = <<[name |-> "x", post_count |-> 0]>>
    /\ post_tags = {}

NextTags ==
    \E r \in Slots :
        \/ \E title \in Titles, slugIn \in TagSlugInputs, tagNames \in TagInputs :
                CreatePost(r, title, slugIn, "ko", "published", NULL, tagNames)
        \/ CreateInsert(r)
        \/ \E postId \in TagUpdateIds, tagNames \in TagInputs :
                UpdatePost(r, postId, <<>>, "published", tagNames)
        \/ UpdateWrite(r)
        \/ UpdateDeleteTags(r)
        \/ TagFind(r)
        \/ TagCreate(r)
        \/ TagLink(r)
        \/ WriteFinish(r)
        \/ \E postId \in TagDeleteIds : DeleteStart(r, postId)
        \/ DeleteWrite(r)

SpecTags == InitTags /\ [][NextTags]_vars


\* the association rows of tag i, and those of post p
rowsOfTag(PT, i) == {pt \in PT : pt[2] = i}
rowsOfPost(PT, p) == {pt \in PT : pt[1] = p}

\* no request is under way and the ones that ended last returned
Completed == \A r \in Slots : Free(r) /\ (req[r].pc = "done" => req[r].result = "ok")

\* C22: when the createPost, updatePost and deletePost calls made so far
\* have run to completion, each tag's post_count equals the number of
\* post_tags rows that reference the tag.
C22_PostCountMatchesRows ==
    Completed =>
        \A i \in DOMAIN tags : tags[i].post_count = Cardinality(rowsOfTag(post_tags, i))

\* the names in a tags array
namesOf(tagNames) == {tagNames[i] : i \in DOMAIN tagNames}

\* this step is a statement of the updatePost call in slot r
UpdateStep(r) ==
    /\ req[r].op = "updatePost" /\ ~Free(r)
    /\ req'[r] # req[r]

\* the updatePost calls on post p in the slots other than r
otherUpdates(r, p) ==
    {q \in Slots \ {r} : req[q].op = "updatePost" /\ req[q].id = p}

\* the calls beside the updatePost call in slot r were updatePost calls on
\* the same post and have ended
OnlyUpdatesBeside(r) ==
    \A q \in Slots \ {r} :
        \/ req[q].pc = "idle"
        \/ q \in otherUpdates(r, req[r].id) /\ req[q].pc = "done"

\* C26: when updatePost returns the post, the post's tags are exactly the
\* names in the request (none when it has no tags) or, when another
\* updatePost on the same post ran beside it, the names in that call's
\* request; and no statement of an updatePost call changes the association
\* rows of another post.
C26_UpdateReplacesTagSet ==
    [][\A r \in Slots :
          UpdateStep(r) =>
             /\ \A p \in Ids \ {req[r].id} :
                    rowsOfPost(post_tags', p) = rowsOfPost(post_tags, p)
             /\ (/\ req'[r].pc = "done" /\ req'[r].result = "ok" /\ req'[r].ret # NULL
                 /\ OnlyUpdatesBeside(r))
                    => getTagsByPostId(req[r].id) \in
                          {namesOf(req[q].tags) :
                              q \in {r} \cup otherUpdates(r, req[r].id)}]_vars

\* C27: when createPost ends with an error after its insert, neither the
\* post row it wrote nor a post_tags row of that post remains in the store.
C27_CreateAllOrNothing ==
    [][\A r \in Slots :
          /\ req[r].op = "createPost" /\ ~Free(r)
          /\ req'[r].pc = "done" /\ req'[r].result # "ok"
          => \/ req[r].id = NULL
             \/ /\ req[r].id \notin DOMAIN posts'
                /\ rowsOfPost(post_tags', req[r].id) = {}]_vars

=============================================================================
